---- MODULE Spec2Model ----
(***************************************************************************)
(* Time values of remacs (rust_src/src/time.rs): decoding of Lisp time     *)
(* specifications, normalisation, time-add / time-subtract, float-time     *)
(* and current-time, modelled as the primitives a Lisp program calls one   *)
(* after the other (specification Spec); and the processes of              *)
(* rust_src/src/process.rs with their signals (specification ProcessSpec)  *)
(* and the export scanner of rust_src/build.rs.                            *)
(*                                                                         *)
(* Floats are modelled as exact decimal reals with picosecond resolution   *)
(* (sign, seconds split in 65536 * hi + lo, microseconds, picoseconds),    *)
(* NaN and the infinities; binary rounding of f64 is not modelled.         *)
(***************************************************************************)
EXTENDS Integers, Sequences, FiniteSets, TLC

VARIABLES pc, call, ret, procs, read_fds, blocked

\* The processes (the elements of Vprocess_alist and their fields), the
\* descriptors the main loop reads from, and whether child signals are
\* blocked.
procvars == <<procs, read_fds, blocked>>

vars == <<pc, call, ret, procs, read_fds, blocked>>

----------------------------------------------------------------------------
(* Program constants *)

LO_TIME_BITS == 16

USEC_RADIX == 1000000

LO_RADIX == 2 ^ LO_TIME_BITS

\* The fixnum range of a build whose EmacsInt has 32 bits (30-bit fixnums).
MOST_NEGATIVE_FIXNUM == -(2 ^ 29)

MOST_POSITIVE_FIXNUM == (2 ^ 29) - 1

----------------------------------------------------------------------------
(* Bounds of the inputs *)

\* Inputs of the decoder are up to MaxCarry radix multiples out of range.
MaxCarry == 1

\* Canonical digits are taken from 0 .. EdgeSpan and from the top of the range.
EdgeSpan == 1

----------------------------------------------------------------------------
(* Rust integer arithmetic *)

\* a / b of Rust for b > 0: the quotient is truncated toward zero.
RustDiv(a, b) == IF a >= 0 THEN a \div b ELSE -((-a) \div b)

\* a % b of Rust for b > 0: the remainder has the sign of a.
RustRem(a, b) == a - b * RustDiv(a, b)

\* a >> bits on a signed integer: arithmetic shift, the floor of a / 2^bits.
Shr(a, bits) == a \div (2 ^ bits)

\* a & ((1 << bits) - 1) on a two's complement integer.
LowBits(a, bits) == a % (2 ^ bits)

Max(x, y) == IF x >= y THEN x ELSE y

----------------------------------------------------------------------------
(* Lisp objects *)

Qnil == [tag |-> "nil"]

Fixnum(n) == [tag |-> "fixnum", n |-> n]

LispFloat(f) == [tag |-> "float", f |-> f]

LispString == [tag |-> "string"]

Cons(a, d) == [tag |-> "cons", car |-> a, cdr |-> d]

is_fixnum(x) == x.tag = "fixnum"

is_float(x) == x.tag = "float"

is_nil(x) == x.tag = "nil"

is_cons(x) == x.tag = "cons"

List2(x, y) == Cons(x, Cons(y, Qnil))

List3(x, y, z) == Cons(x, List2(y, z))

List4(x, y, z, w) == Cons(x, List3(y, z, w))

\* True when the value does not fit a fixnum.
fixnum_overflow(n) == n < MOST_NEGATIVE_FIXNUM \/ n > MOST_POSITIVE_FIXNUM

----------------------------------------------------------------------------
(* Floats: exact decimal reals, NaN, infinities *)

Fin(neg, hi, lo, us, ps) ==
    [kind |-> "fin", neg |-> neg, hi |-> hi, lo |-> lo, us |-> us, ps |-> ps,
     sub |-> FALSE]

\* A finite value whose magnitude exceeds that of Fin(neg, hi, lo, us, ps) by
\* a fraction of a picosecond, as an f64 of small magnitude can.
FinSub(neg, hi, lo, us, ps) == [Fin(neg, hi, lo, us, ps) EXCEPT !.sub = TRUE]

NaN == [kind |-> "nan"]

Inf(neg) == [kind |-> "inf", neg |-> neg]

FloatZero == Fin(FALSE, 0, 0, 0, 0)

\* The real hi * 65536 + lo + us / 10^6 + ps / 10^12, for lo, us, ps in their
\* canonical ranges, in sign and magnitude.
ToFloat(hi, lo, us, ps) ==
    IF hi >= 0 THEN Fin(FALSE, hi, lo, us, ps)
    ELSE LET ps1 == IF ps > 0 THEN USEC_RADIX - ps ELSE 0
             us0 == us + (IF ps > 0 THEN 1 ELSE 0)
             us1 == IF us0 > 0 THEN USEC_RADIX - us0 ELSE 0
             lo0 == lo + (IF us0 > 0 THEN 1 ELSE 0)
             lo1 == IF lo0 > 0 THEN LO_RADIX - lo0 ELSE 0
             hi1 == (-hi) - (IF lo0 > 0 THEN 1 ELSE 0)
         IN  Fin(TRUE, hi1, lo1, us1, ps1)

----------------------------------------------------------------------------
(* Time values *)

LispTime(hi, lo, us, ps) == [hi |-> hi, lo |-> lo, us |-> us, ps |-> ps]

\* Default::default() of lisp_time.
DefaultTime == LispTime(0, 0, 0, 0)

\* Pointers: null, or pointing at a value the callee may overwrite.
NullPtr == [null |-> TRUE]

Ptr(v) == [null |-> FALSE, at |-> v]

is_null(p) == p.null

Timespec(s, ns) == [tv_sec |-> s, tv_nsec |-> ns]

NoError == "none"

TimeOverflow == "Specified time is not representable"

InvalidTime == "Invalid time specification"

\* hi_time: the upper part of the time; signals when it is no fixnum.
hi_time(t) ==
    LET hi == Shr(t, LO_TIME_BITS)
    IN  [err |-> IF fixnum_overflow(hi) THEN TimeOverflow ELSE NoError, v |-> hi]

\* lo_time as the remainder of a truncating division.
lo_time_remainder(t) == RustRem(t, LO_RADIX)

\* lo_time: the bottom 16 bits of the time.
lo_time(t) == LowBits(t, LO_TIME_BITS)

----------------------------------------------------------------------------
(* disassemble_lisp_time *)

\* The walk taking (HIGH LOW . USEC) for (HIGH LOW): the dotted tail is dropped.
disassemble_walk_dotted_as_pair(st) ==
    LET zero == Fixnum(0)
    IN  IF is_cons(st) THEN
            IF is_cons(st.cdr) THEN
                IF is_cons(st.cdr.cdr) THEN
                    IF is_cons(st.cdr.cdr.cdr) THEN
                        [high |-> st.car, low |-> st.cdr.car, usec |-> st.cdr.cdr.car,
                         psec |-> st.cdr.cdr.cdr.car, len |-> 4]
                    ELSE
                        [high |-> st.car, low |-> st.cdr.car, usec |-> st.cdr.cdr.car,
                         psec |-> zero, len |-> 3]
                ELSE
                    [high |-> st.car, low |-> st.cdr.car, usec |-> zero, psec |-> zero,
                     len |-> 2]
            ELSE
                [high |-> st.car, low |-> st.cdr, usec |-> zero, psec |-> zero, len |-> 2]
        ELSE IF is_fixnum(st) THEN
            [high |-> zero, low |-> st, usec |-> zero, psec |-> zero, len |-> 2]
        ELSE
            [high |-> zero, low |-> st, usec |-> zero, psec |-> zero, len |-> 4]

\* The locals high, low, usec, psec and len after the walk over the shape
\* of SPECIFIED_TIME.
disassemble_walk(st) ==
    LET zero == Fixnum(0)
    IN  IF is_cons(st) THEN
            IF is_cons(st.cdr) THEN
                IF is_cons(st.cdr.cdr) THEN
                    IF is_cons(st.cdr.cdr.cdr) THEN
                        [high |-> st.car, low |-> st.cdr.car, usec |-> st.cdr.cdr.car,
                         psec |-> st.cdr.cdr.cdr.car, len |-> 4]
                    ELSE
                        [high |-> st.car, low |-> st.cdr.car, usec |-> st.cdr.cdr.car,
                         psec |-> zero, len |-> 3]
                ELSE IF ~is_nil(st.cdr.cdr) THEN
                    [high |-> st.car, low |-> st.cdr.car, usec |-> st.cdr.cdr,
                     psec |-> zero, len |-> 3]
                ELSE
                    [high |-> st.car, low |-> st.cdr.car, usec |-> zero, psec |-> zero,
                     len |-> 2]
            ELSE
                [high |-> st.car, low |-> st.cdr, usec |-> zero, psec |-> zero, len |-> 2]
        ELSE IF is_fixnum(st) THEN
            [high |-> zero, low |-> st, usec |-> zero, psec |-> zero, len |-> 2]
        ELSE
            [high |-> zero, low |-> st, usec |-> zero, psec |-> zero, len |-> 4]

\* disassemble_lisp_time without the test of LOW.
disassemble_unchecked(st, w, out) == w

\* After the walk gave w: a list whose LOW is no fixnum is refused and the
\* slots keep what they held (out); otherwise the slots are written.
disassemble_checked(st, w, out) ==
    IF is_cons(st) /\ ~is_fixnum(w.low) THEN
        [len |-> 0, high |-> out.high, low |-> out.low, usec |-> out.usec,
         psec |-> out.psec]
    ELSE w

\* [len, high, low, usec, psec]: the returned length and the four output
\* slots, which held out before the call.
disassemble_lisp_time(specified_time, out) ==
    disassemble_checked(specified_time, disassemble_walk(specified_time), out)

\* The slots as lisp_time_struct and float_time initialise them.
ZeroSlots ==
    [high |-> Fixnum(0), low |-> Fixnum(0), usec |-> Fixnum(0), psec |-> Fixnum(0)]

----------------------------------------------------------------------------
(* decode_float_time *)

\* The range test with both limits inclusive.
float_time_in_range_closed(t) ==
    /\ t.kind = "fin"
    /\ \/ t.hi < -MOST_NEGATIVE_FIXNUM
       \/ t.hi = -MOST_NEGATIVE_FIXNUM /\ t.lo = 0 /\ t.us = 0 /\ t.ps = 0 /\ ~t.sub

\* emacs_time_min <= t && t < -emacs_time_min, emacs_time_min being
\* MOST_NEGATIVE_FIXNUM * 65536.
float_time_in_range(t) ==
    /\ t.kind = "fin"
    /\ IF t.neg
       THEN \/ t.hi < -MOST_NEGATIVE_FIXNUM
            \/ t.hi = -MOST_NEGATIVE_FIXNUM /\ t.lo = 0 /\ t.us = 0 /\ t.ps = 0
                   /\ ~t.sub
       ELSE t.hi < -MOST_NEGATIVE_FIXNUM

\* ps < 0 made non-negative without the borrow from us.
float_borrow_ps_us_kept(t) ==
    IF t.ps < 0 THEN [t EXCEPT !.ps = t.ps + USEC_RADIX] ELSE t

\* ps < 0: borrow from us.
float_borrow_ps(t) ==
    IF t.ps < 0 THEN [t EXCEPT !.us = t.us - 1, !.ps = t.ps + USEC_RADIX] ELSE t

\* us < 0: borrow from lo.
float_borrow_us(t) ==
    IF t.us < 0 THEN [t EXCEPT !.lo = t.lo - 1, !.us = t.us + USEC_RADIX] ELSE t

\* lo < 0: borrow from hi.
float_borrow_lo(t) ==
    IF t.lo < 0 THEN [t EXCEPT !.hi = t.hi - 1, !.lo = t.lo + LO_RADIX] ELSE t

\* [ok, result]: the casts truncate toward zero, so every digit of a negative
\* t starts out non-positive and is then corrected by the borrows; what t
\* holds below a picosecond is cut off by the last cast.
decode_float_time(t, result) ==
    IF ~float_time_in_range(t) THEN [ok |-> FALSE, result |-> result]
    ELSE LET sgn == IF t.neg THEN -1 ELSE 1
             hi == sgn * t.hi
             lo == sgn * t.lo
             us == sgn * t.us
             ps == sgn * t.ps
         IN  [ok |-> TRUE,
              result |-> Ptr(float_borrow_lo(float_borrow_us(float_borrow_ps(
                                 LispTime(hi, lo, us, ps)))))]

----------------------------------------------------------------------------
(* decode_time_components *)

\* if ps % 1_000_000 < 0 { us += ps / 1_000_000 - 1; }
carry_ps(us, ps) ==
    IF RustRem(ps, USEC_RADIX) < 0 THEN us + RustDiv(ps, USEC_RADIX) - 1 ELSE us

\* if us % 1_000_000 < 0 { lo += us / 1_000_000 - 1; }
carry_us(lo, us) ==
    IF RustRem(us, USEC_RADIX) < 0 THEN lo + RustDiv(us, USEC_RADIX) - 1 ELSE lo

\* The carry into hi taken from lo after its mask: nothing is left to carry.
carry_lo_after_mask(hi, lo) == hi + Shr(LowBits(lo, LO_TIME_BITS), LO_TIME_BITS)

\* hi += lo >> LO_TIME_BITS;
carry_lo(hi, lo) == hi + Shr(lo, LO_TIME_BITS)

\* ps reduced into 0 .. 999999
reduce_ps(ps) ==
    IF RustRem(ps, USEC_RADIX) < 0
    THEN RustRem(ps, USEC_RADIX) + USEC_RADIX
    ELSE RustRem(ps, USEC_RADIX)

\* The remainder of Rust as it is, negative for a negative us.
reduce_us_remainder_only(us) == RustRem(us, USEC_RADIX)

\* us reduced into 0 .. 999999
reduce_us(us) ==
    IF RustRem(us, USEC_RADIX) < 0
    THEN RustRem(us, USEC_RADIX) + USEC_RADIX
    ELSE RustRem(us, USEC_RADIX)

\* lo &= (1 << LO_TIME_BITS) - 1;
mask_lo(lo) == LowBits(lo, LO_TIME_BITS)

\* The normalisation of four integer components.
normalize_components(high, low, usec, psec) ==
    LET us1 == carry_ps(usec, psec)
        lo1 == carry_us(low, us1)
        hi1 == carry_lo(high, lo1)
    IN  LispTime(hi1, mask_lo(lo1), reduce_us(us1), reduce_ps(psec))

\* What decode_time_components returns: [val, result, dresult, err], with
\* result and dresult the two pointers and what they point at when the
\* function is left, and err an error signalled from inside (hi_time).
Decoded(val, result, dresult, err) ==
    [val |-> val, result |-> result, dresult |-> dresult, err |-> err]

\* The float branch reporting a refused float as a wrong type.
decode_float_branch_wrong_type(t, d, result, dresult) ==
    IF ~d.ok THEN Decoded(0, result, dresult, NoError)
    ELSE Decoded(1, d.result, IF is_null(dresult) THEN dresult ELSE Ptr(t), NoError)

\* LOW is a float t; d is what decode_float_time gave, when it was called.
decode_float_branch(t, d, result, dresult) ==
    IF ~d.ok THEN Decoded(-1, result, dresult, NoError)
    ELSE Decoded(1, d.result, IF is_null(dresult) THEN dresult ELSE Ptr(t), NoError)

\* LOW is nil: the clock gave now, and h is hi_time(now.tv_sec).
decode_nil_branch(now, h, result, dresult) ==
    IF ~is_null(result) /\ h.err # NoError THEN Decoded(0, result, dresult, h.err)
    ELSE Decoded(1,
                 IF is_null(result) THEN result
                 ELSE Ptr(LispTime(h.v, lo_time(now.tv_sec),
                                   RustDiv(now.tv_nsec, 1000),
                                   RustRem(now.tv_nsec, 1000) * 1000)),
                 IF is_null(dresult) THEN dresult
                 ELSE Ptr(ToFloat(h.v, lo_time(now.tv_sec),
                                  RustDiv(now.tv_nsec, 1000),
                                  RustRem(now.tv_nsec, 1000) * 1000)),
                 NoError)

\* The integer branch storing its outputs before its range check.
decode_int_branch_store_first(t, result, dresult) ==
    Decoded(IF ~is_null(result) /\ fixnum_overflow(t.hi) THEN -1 ELSE 1,
            IF is_null(result) THEN result ELSE Ptr(t),
            IF is_null(dresult) THEN dresult ELSE Ptr(ToFloat(t.hi, t.lo, t.us, t.ps)),
            NoError)

\* The integer branch without its range check.
decode_int_branch_unchecked(t, result, dresult) ==
    Decoded(1,
            IF is_null(result) THEN result ELSE Ptr(t),
            IF is_null(dresult) THEN dresult ELSE Ptr(ToFloat(t.hi, t.lo, t.us, t.ps)),
            NoError)

\* Four integers, normalised to t.
decode_int_branch(t, result, dresult) ==
    IF ~is_null(result) /\ fixnum_overflow(t.hi) THEN Decoded(-1, result, dresult, NoError)
    ELSE Decoded(1,
                 IF is_null(result) THEN result ELSE Ptr(t),
                 IF is_null(dresult) THEN dresult
                 ELSE Ptr(ToFloat(t.hi, t.lo, t.us, t.ps)),
                 NoError)

\* now is the sample the clock gives if it is read.
decode_time_components(high, low, usec, psec, result, dresult, now) ==
    IF ~(is_fixnum(high) /\ is_fixnum(usec) /\ is_fixnum(psec)) THEN
        Decoded(0, result, dresult, NoError)
    ELSE IF ~is_fixnum(low) THEN
        IF is_float(low) THEN
            decode_float_branch(low.f,
                                IF is_null(result) THEN [ok |-> TRUE, result |-> result]
                                ELSE decode_float_time(low.f, result),
                                result, dresult)
        ELSE IF is_nil(low) THEN
            decode_nil_branch(now, hi_time(now.tv_sec), result, dresult)
        ELSE Decoded(0, result, dresult, NoError)
    ELSE
        decode_int_branch(normalize_components(high.n, low.n, usec.n, psec.n),
                          result, dresult)

\* check_time_validity: the error a return value of decode_time_components
\* makes it signal.
check_time_validity(validity) ==
    IF validity <= 0
    THEN IF validity < 0 THEN TimeOverflow ELSE InvalidTime
    ELSE NoError

----------------------------------------------------------------------------
(* lisp_to_timespec *)

\* The width of EmacsInt and of time_t in the build the fixnum range above
\* belongs to.
EMACS_INT_BITS == 32

\* a << bits in EMACS_INT_BITS-bit two's complement: the bits shifted out at
\* the top are lost.
WrapShl(a, bits) ==
    LET keep == EMACS_INT_BITS - bits
        low == a % (2 ^ keep)
    IN  IF low >= 2 ^ (keep - 1) THEN (low - 2 ^ keep) * (2 ^ bits) ELSE low * (2 ^ bits)

\* The invalid timespec.
InvalidTimespec == Timespec(0, -1)

\* if t.hi < (1 >> LO_TIME_BITS)
timespec_hi_refused(t) == t.hi < Shr(1, LO_TIME_BITS)

lisp_to_timespec(t) ==
    IF timespec_hi_refused(t) THEN InvalidTimespec
    ELSE Timespec(WrapShl(t.hi, LO_TIME_BITS) + t.lo, t.us * 1000 + RustDiv(t.ps, 1000))

----------------------------------------------------------------------------
(* lisp_time_struct *)

\* What lisp_time_struct gives: [err, t, plen], the error signalled or the
\* time returned, and the pointer plen with what it points at.

\* After decode_time_components returned r for a time of length len.
lisp_time_checked(len, r, plen) ==
    IF r.err # NoError THEN [err |-> r.err, t |-> r.result.at, plen |-> plen]
    ELSE IF check_time_validity(r.val) # NoError THEN
        [err |-> check_time_validity(r.val), t |-> r.result.at, plen |-> plen]
    ELSE [err |-> NoError, t |-> r.result.at,
          plen |-> IF is_null(plen) THEN plen ELSE Ptr(len)]

\* After disassemble_lisp_time returned d.
lisp_time_disassembled(d, plen, now) ==
    IF d.len = 0 THEN [err |-> InvalidTime, t |-> DefaultTime, plen |-> plen]
    ELSE lisp_time_checked(d.len,
                           decode_time_components(d.high, d.low, d.usec, d.psec,
                                                  Ptr(DefaultTime), NullPtr, now),
                           plen)

lisp_time_struct(specified_time, plen, now) ==
    lisp_time_disassembled(disassemble_lisp_time(specified_time, ZeroSlots), plen, now)

----------------------------------------------------------------------------
(* make_lisp_time, current-time, float-time *)

NoValue == [tag |-> "none"]

Unset == [unset |-> TRUE]

\* [err, val]: the list (hi lo us ps) of a timespec.
make_lisp_time_1(t) ==
    LET h == hi_time(t.tv_sec)
    IN  IF h.err # NoError THEN [err |-> h.err, val |-> NoValue]
        ELSE [err |-> NoError,
              val |-> List4(Fixnum(h.v), Fixnum(lo_time(t.tv_sec)),
                            Fixnum(RustDiv(t.tv_nsec, 1000)),
                            Fixnum(RustRem(t.tv_nsec, 1000) * 1000))]

\* [err, val] of (current-time), the clock giving now.
current_time(now) == make_lisp_time_1(now)

\* After decode_time_components returned r.
float_time_decoded(r) ==
    IF r.err # NoError THEN [err |-> r.err, val |-> NoValue]
    ELSE IF r.val = 0 THEN [err |-> InvalidTime, val |-> NoValue]
    ELSE [err |-> NoError, val |-> LispFloat(r.dresult.at)]

\* After disassemble_lisp_time returned d.
float_time_disassembled(d, now) ==
    IF d.len = 0 THEN [err |-> InvalidTime, val |-> NoValue]
    ELSE float_time_decoded(decode_time_components(d.high, d.low, d.usec, d.psec,
                                                   NullPtr, Ptr(FloatZero), now))

\* [err, val] of (float-time TIME).
float_time(time, now) ==
    float_time_disassembled(disassemble_lisp_time(time, ZeroSlots), now)

----------------------------------------------------------------------------
(* time-add, time-subtract *)

\* time_add deciding the carry out of us from the sum of the operands' us
\* alone, without the carry that came in from ps.
time_add_carry_from_sums(ta, tb) ==
    LET hi0 == ta.hi + tb.hi
        lo0 == ta.lo + tb.lo
        us0 == ta.us + tb.us
        ps0 == ta.ps + tb.ps
        us1 == us0 + (IF USEC_RADIX <= ps0 THEN 1 ELSE 0)
        ps1 == ps0 - (IF USEC_RADIX <= ps0 THEN USEC_RADIX ELSE 0)
        lo1 == lo0 + (IF USEC_RADIX <= us0 THEN 1 ELSE 0)
        us2 == us1 - (IF USEC_RADIX <= us0 THEN USEC_RADIX ELSE 0)
        hi1 == hi0 + (IF LO_RADIX <= lo1 THEN 1 ELSE 0)
        lo2 == lo1 - (IF LO_RADIX <= lo1 THEN 1 ELSE 0) * LO_RADIX
    IN  LispTime(hi1, lo2, us2, ps1)

\* time_add carrying out of lo at the mask (1 << LO_TIME_BITS) - 1 instead of
\* at 1 << LO_TIME_BITS.
time_add_carry_at_mask(ta, tb) ==
    LET hi0 == ta.hi + tb.hi
        lo0 == ta.lo + tb.lo
        us0 == ta.us + tb.us
        ps0 == ta.ps + tb.ps
        us1 == us0 + (IF USEC_RADIX <= ps0 THEN 1 ELSE 0)
        ps1 == ps0 - (IF USEC_RADIX <= ps0 THEN USEC_RADIX ELSE 0)
        lo1 == lo0 + (IF USEC_RADIX <= us1 THEN 1 ELSE 0)
        us2 == us1 - (IF USEC_RADIX <= us1 THEN USEC_RADIX ELSE 0)
        hi1 == hi0 + (IF LO_RADIX - 1 <= lo1 THEN 1 ELSE 0)
        lo2 == lo1 - (IF LO_RADIX - 1 <= lo1 THEN 1 ELSE 0) * (LO_RADIX - 1)
    IN  LispTime(hi1, lo2, us2, ps1)

\* time_add reducing lo without carrying into hi.
time_add_no_carry_into_hi(ta, tb) ==
    LET hi0 == ta.hi + tb.hi
        lo0 == ta.lo + tb.lo
        us0 == ta.us + tb.us
        ps0 == ta.ps + tb.ps
        us1 == us0 + (IF USEC_RADIX <= ps0 THEN 1 ELSE 0)
        ps1 == ps0 - (IF USEC_RADIX <= ps0 THEN USEC_RADIX ELSE 0)
        lo1 == lo0 + (IF USEC_RADIX <= us1 THEN 1 ELSE 0)
        us2 == us1 - (IF USEC_RADIX <= us1 THEN USEC_RADIX ELSE 0)
        lo2 == lo1 - (IF LO_RADIX <= lo1 THEN 1 ELSE 0) * LO_RADIX
    IN  LispTime(hi0, lo2, us2, ps1)

time_add(ta, tb) ==
    LET hi0 == ta.hi + tb.hi
        lo0 == ta.lo + tb.lo
        us0 == ta.us + tb.us
        ps0 == ta.ps + tb.ps
        us1 == us0 + (IF USEC_RADIX <= ps0 THEN 1 ELSE 0)
        ps1 == ps0 - (IF USEC_RADIX <= ps0 THEN USEC_RADIX ELSE 0)
        lo1 == lo0 + (IF USEC_RADIX <= us1 THEN 1 ELSE 0)
        us2 == us1 - (IF USEC_RADIX <= us1 THEN USEC_RADIX ELSE 0)
        hi1 == hi0 + (IF LO_RADIX <= lo1 THEN 1 ELSE 0)
        lo2 == lo1 - (IF LO_RADIX <= lo1 THEN 1 ELSE 0) * LO_RADIX
    IN  LispTime(hi1, lo2, us2, ps1)

\* time_subtract borrowing from lo only when the difference of the operands'
\* us is negative, without the borrow ps took.
time_subtract_borrow_from_differences(ta, tb) ==
    LET hi0 == ta.hi - tb.hi
        lo0 == ta.lo - tb.lo
        us0 == ta.us - tb.us
        ps0 == ta.ps - tb.ps
        us1 == us0 - (IF ps0 < 0 THEN 1 ELSE 0)
        ps1 == ps0 + (IF ps0 < 0 THEN USEC_RADIX ELSE 0)
        lo1 == lo0 - (IF us0 < 0 THEN 1 ELSE 0)
        us2 == us1 + (IF us0 < 0 THEN USEC_RADIX ELSE 0)
        hi1 == hi0 - (IF lo1 < 0 THEN 1 ELSE 0)
        lo2 == lo1 + (IF lo1 < 0 THEN 1 ELSE 0) * LO_RADIX
    IN  LispTime(hi1, lo2, us2, ps1)

time_subtract(ta, tb) ==
    LET hi0 == ta.hi - tb.hi
        lo0 == ta.lo - tb.lo
        us0 == ta.us - tb.us
        ps0 == ta.ps - tb.ps
        us1 == us0 - (IF ps0 < 0 THEN 1 ELSE 0)
        ps1 == ps0 + (IF ps0 < 0 THEN USEC_RADIX ELSE 0)
        lo1 == lo0 - (IF us1 < 0 THEN 1 ELSE 0)
        us2 == us1 + (IF us1 < 0 THEN USEC_RADIX ELSE 0)
        hi1 == hi0 - (IF lo1 < 0 THEN 1 ELSE 0)
        lo2 == lo1 + (IF lo1 < 0 THEN 1 ELSE 0) * LO_RADIX
    IN  LispTime(hi1, lo2, us2, ps1)

\* The list time_arith builds from the result t and max(alen, blen).
time_arith_list(t, max_len) ==
    LET val0 == Cons(Fixnum(t.ps), Qnil)
        val1 == IF max_len = 3 THEN Cons(Fixnum(t.us), val0) ELSE val0
        val2 == IF max_len = 2 THEN Cons(Fixnum(t.hi), Cons(Fixnum(t.lo), val1))
                ELSE val1
    IN  val2

\* The overflow test looking at the upper end of the range only.
time_arith_overflow_upper_only(t) == t.hi > MOST_POSITIVE_FIXNUM

\* True when time_arith signals the overflow error for the result t.
time_arith_overflow(t) == fixnum_overflow(t.hi)

\* What time_arith gives: [err, val, alen, blen, ta, tb, t], the returned
\* list or the error signalled, and the locals as they are when the function
\* is left.
Arith(err, val, alen, blen, ta, tb, t) ==
    [err |-> err, val |-> val, alen |-> alen, blen |-> blen, ta |-> ta, tb |-> tb,
     t |-> t]

\* After op gave t.
time_arith_result(alen, blen, ta, tb, t) ==
    IF time_arith_overflow(t) THEN Arith(TimeOverflow, NoValue, alen, blen, ta, tb, t)
    ELSE Arith(NoError, time_arith_list(t, Max(alen, blen)), alen, blen, ta, tb, t)

\* The call op(ta, tb) of the function time_arith was given: time_add or
\* time_subtract.
apply_op(op, ta, tb) == IF op = "time_add" THEN time_add(ta, tb) ELSE time_subtract(ta, tb)

\* After the operand a was decoded with the outcome ra; rb is the outcome of
\* decoding b, which happens only if a is a valid time.
time_arith_decoded(ra, rb, op) ==
    IF ra.err # NoError THEN Arith(ra.err, NoValue, ra.plen.at, 0, Unset, Unset, Unset)
    ELSE IF rb.err # NoError THEN
        Arith(rb.err, NoValue, ra.plen.at, rb.plen.at, ra.t, Unset, Unset)
    ELSE time_arith_result(ra.plen.at, rb.plen.at, ra.t, rb.t, apply_op(op, ra.t, rb.t))

\* decode_time_components reads the clock: LOW is nil, reached past the
\* tests of the other components and of LOW being an integer or a float.
decode_reads_clock(high, low, usec, psec) ==
    /\ is_fixnum(high) /\ is_fixnum(usec) /\ is_fixnum(psec)
    /\ ~is_fixnum(low) /\ ~is_float(low) /\ is_nil(low)

\* lisp_time_struct reads the clock: d is what disassemble_lisp_time gave.
lisp_time_reads_clock(d) ==
    d.len # 0 /\ decode_reads_clock(d.high, d.low, d.usec, d.psec)

\* The clock reads with both operands decoded before either is validated.
time_arith_clock_reads_both(a, b, ra) ==
    (IF lisp_time_reads_clock(disassemble_lisp_time(a, ZeroSlots)) THEN <<"a">> ELSE <<>>)
        \o (IF lisp_time_reads_clock(disassemble_lisp_time(b, ZeroSlots))
            THEN <<"b">> ELSE <<>>)

\* The clock reads of time_arith in their order, each named by its operand;
\* ra is the outcome of lisp_time_struct for a, which signals before b is
\* looked at.
time_arith_clock_reads(a, b, ra) ==
    (IF lisp_time_reads_clock(disassemble_lisp_time(a, ZeroSlots)) THEN <<"a">> ELSE <<>>)
        \o (IF ra.err = NoError /\ lisp_time_reads_clock(disassemble_lisp_time(b, ZeroSlots))
            THEN <<"b">> ELSE <<>>)

time_arith(a, b, op, now_a, now_b) ==
    time_arith_decoded(lisp_time_struct(a, Ptr(0), now_a),
                       lisp_time_struct(b, Ptr(0), now_b), op)

\* (time-add A B)
time_add_lisp(a, b, now_a, now_b) == time_arith(a, b, "time_add", now_a, now_b)

\* (time-subtract A B)
time_subtract_lisp(a, b, now_a, now_b) == time_arith(a, b, "time_subtract", now_a, now_b)

----------------------------------------------------------------------------
(* The values the primitives are called with *)

HiVals == {MOST_NEGATIVE_FIXNUM, -1, 0, MOST_POSITIVE_FIXNUM}

\* Canonical digits: the bottom and the top of each range.
LoDigits == (0 .. EdgeSpan) \cup {LO_RADIX - 1}

UsDigits == (0 .. EdgeSpan) \cup {USEC_RADIX - 1}

\* Components up to MaxCarry radix multiples under or over the range.
LowVals == {k * LO_RADIX + r : k \in (-MaxCarry) .. MaxCarry, r \in {0, 1, LO_RADIX - 1}}

UsecVals ==
    {k * USEC_RADIX + r : k \in (-MaxCarry) .. MaxCarry, r \in {0, 500000, USEC_RADIX - 1}}

PsecVals ==
    {k * USEC_RADIX + r : k \in (-MaxCarry) .. MaxCarry, r \in {0, 1, USEC_RADIX - 1}}

FloatVals ==
    { FloatZero,
      Fin(FALSE, 0, 1, 500000, 0),                       \* 1.5
      Fin(TRUE, 0, 0, 500000, 0),                        \* -0.5
      Fin(TRUE, 0, 1, 0, 0),                             \* -1.0
      Fin(TRUE, 1, 0, 0, 1),                             \* -65536.000000000001
      FinSub(FALSE, 0, 1, 500000, 0),                    \* just above 1.5
      FinSub(TRUE, 0, 0, 0, 0),                          \* between -1 ps and 0
      FinSub(TRUE, 0, 1, 0, 0),                          \* just below -1.0
      Fin(FALSE, 2, LO_RADIX - 1, USEC_RADIX - 1, USEC_RADIX - 1),
      Fin(TRUE, 2, LO_RADIX - 1, USEC_RADIX - 1, USEC_RADIX - 1),
      Fin(TRUE, -MOST_NEGATIVE_FIXNUM, 0, 0, 0),         \* emacs_time_min
      Fin(TRUE, -MOST_NEGATIVE_FIXNUM, 0, 0, 1),         \* just below it
      Fin(FALSE, MOST_POSITIVE_FIXNUM, LO_RADIX - 1, USEC_RADIX - 1, USEC_RADIX - 1),
      Fin(FALSE, -MOST_NEGATIVE_FIXNUM, 0, 0, 0),        \* -emacs_time_min
      NaN, Inf(FALSE), Inf(TRUE) }

ClockSamples ==
    {Timespec(s, ns) : s \in {-1, 0, LO_RADIX + 1}, ns \in {0, 1999, 999999999}}

NoSample == Timespec(0, 0)

\* The clock is read only for a nil time.
SamplesFor(x) == IF is_nil(x) THEN ClockSamples ELSE {NoSample}

\* Objects that are no fixnum
NonFixnums == {Qnil, LispString, LispFloat(Fin(FALSE, 0, 1, 500000, 0)), Cons(Fixnum(0), Qnil)}

\* Lists of canonical components, of every length
CanonicalSpecs ==
    {List4(Fixnum(h), Fixnum(l), Fixnum(u), Fixnum(p)) :
        h \in HiVals, l \in LoDigits, u \in UsDigits, p \in UsDigits}
    \cup {List3(Fixnum(h), Fixnum(l), Fixnum(u)) :
        h \in {-1, 0}, l \in {0, LO_RADIX - 1}, u \in {1, USEC_RADIX - 1}}
    \cup {List2(Fixnum(h), Fixnum(l)) : h \in {-1, 0}, l \in {1, LO_RADIX - 1}}

\* The other shapes: dotted forms, bare numbers, nil, components out of
\* range, and shapes that are no time
OtherSpecs ==
    { Qnil, Fixnum(5), Fixnum(-1), LispString,
      Fixnum(0), Cons(Fixnum(0), Fixnum(0)), List2(Fixnum(0), Fixnum(0)),
      List3(Fixnum(0), Fixnum(0), Fixnum(0)),
      LispFloat(Fin(FALSE, 0, 1, 500000, 0)), LispFloat(Fin(TRUE, 0, 0, 500000, 0)),
      LispFloat(NaN),
      Cons(Fixnum(0), Fixnum(7)),
      Cons(Fixnum(0), Cons(Fixnum(7), Fixnum(9))),
      List4(Fixnum(0), Fixnum(0), Fixnum(1500000), Fixnum(0)),
      List4(Fixnum(0), Fixnum(0), Fixnum(0), Fixnum(-1)),
      List2(Fixnum(MOST_POSITIVE_FIXNUM), Fixnum(LO_RADIX)),
      Cons(Fixnum(0), Qnil),
      Cons(Fixnum(0), LispFloat(Fin(FALSE, 0, 1, 500000, 0))),
      List2(Fixnum(0), LispFloat(Fin(FALSE, 0, 1, 500000, 0))),
      List4(Fixnum(0), LispFloat(Fin(FALSE, 0, 1, 500000, 0)), Fixnum(0), Fixnum(0)),
      List4(Fixnum(0), LispString, Fixnum(0), Fixnum(0)),
      List3(Fixnum(0), Qnil, Fixnum(0)),
      List2(LispString, Fixnum(1)),
      List3(Fixnum(0), Fixnum(1), LispString),
      List4(Fixnum(0), Fixnum(1), Fixnum(2), Qnil) }

TimeSpecs == CanonicalSpecs \cup OtherSpecs

\* What the caller's output slots may hold before a call
PriorSlots ==
    { ZeroSlots,
      [high |-> Fixnum(11), low |-> Fixnum(12), usec |-> Fixnum(13), psec |-> Fixnum(14)] }

\* The component tuples decode_time_components is called with
ComponentTuples ==
    {<<Fixnum(h), Fixnum(l), Fixnum(u), Fixnum(p)>> :
        h \in HiVals, l \in LowVals, u \in UsecVals, p \in PsecVals}
    \cup {<<Fixnum(0), LispFloat(f), Fixnum(0), Fixnum(0)>> : f \in FloatVals}
    \cup {<<Fixnum(1), x, Fixnum(0), Fixnum(0)>> : x \in NonFixnums}
    \cup {<<x, Fixnum(1), Fixnum(0), Fixnum(0)>> : x \in NonFixnums}
    \cup {<<Fixnum(0), Fixnum(1), x, Fixnum(0)>> : x \in NonFixnums}
    \cup {<<Fixnum(0), Fixnum(1), Fixnum(0), x>> : x \in NonFixnums}
    \cup {<<x, Qnil, Fixnum(0), Fixnum(0)>> : x \in NonFixnums}

\* The time values lisp_to_timespec is called with: the times make_lisp_time
\* gives for the clock samples, and normalized times around the limits
TimeValues ==
    {LispTime(Shr(c.tv_sec, LO_TIME_BITS), LowBits(c.tv_sec, LO_TIME_BITS),
              RustDiv(c.tv_nsec, 1000), RustRem(c.tv_nsec, 1000) * 1000) :
        c \in ClockSamples}
    \cup {LispTime(h, l, u, p) :
        h \in HiVals \cup {1, 2 ^ 15 - 1}, l \in LoDigits, u \in UsDigits,
        p \in {0, 999, 1000, USEC_RADIX - 1}}

\* Normalized time values, the operands of time_add and time_subtract
NormalTimes ==
    {LispTime(h, l, u, p) :
        h \in HiVals, l \in LoDigits, u \in {0, USEC_RADIX - 1},
        p \in {0, 1, USEC_RADIX - 1}}

\* What *result and *dresult may be before a call
PriorResults == {NullPtr, Ptr(LispTime(11, 12, 13, 14))}

PriorDresults == {NullPtr, Ptr(Fin(FALSE, 0, 7, 0, 0))}

----------------------------------------------------------------------------
(* The primitives as a Lisp program calls them *)

NoCall == [op |-> "none"]

Init ==
    /\ pc = "idle"
    /\ call = NoCall
    /\ ret = NoValue
    /\ procs = <<>>
    /\ read_fds = {}
    /\ blocked = FALSE

CallDisassembleLispTime ==
    /\ pc = "idle"
    /\ \E st \in TimeSpecs, out \in PriorSlots :
          /\ call' = [op |-> "disassemble_lisp_time", specified_time |-> st, out |-> out]
          /\ ret' = disassemble_lisp_time(st, out)
    /\ pc' = "done"
    /\ UNCHANGED procvars

CallDecodeTimeComponents ==
    /\ pc = "idle"
    /\ \E c \in ComponentTuples, result \in PriorResults, dresult \in PriorDresults :
       \E now \in SamplesFor(c[2]) :
          /\ call' = [op |-> "decode_time_components", high |-> c[1], low |-> c[2],
                      usec |-> c[3], psec |-> c[4], result |-> result,
                      dresult |-> dresult, now |-> now]
          /\ ret' = decode_time_components(c[1], c[2], c[3], c[4], result, dresult, now)
    /\ pc' = "done"
    /\ UNCHANGED procvars

CallLispTimeStruct ==
    /\ pc = "idle"
    /\ \E st \in TimeSpecs, plen \in {NullPtr, Ptr(0)} : \E now \in SamplesFor(st) :
          /\ call' = [op |-> "lisp_time_struct", specified_time |-> st, plen |-> plen,
                      now |-> now]
          /\ ret' = lisp_time_struct(st, plen, now)
    /\ pc' = "done"
    /\ UNCHANGED procvars

CallCurrentTime ==
    /\ pc = "idle"
    /\ \E now \in ClockSamples :
          /\ call' = [op |-> "current-time", now |-> now]
          /\ ret' = current_time(now)
    /\ pc' = "done"
    /\ UNCHANGED procvars

CallFloatTime ==
    /\ pc = "idle"
    /\ \E time \in TimeSpecs : \E now \in SamplesFor(time) :
          /\ call' = [op |-> "float-time", time |-> time, now |-> now]
          /\ ret' = float_time(time, now)
    /\ pc' = "done"
    /\ UNCHANGED procvars

CallTimeAdd ==
    /\ pc = "idle"
    /\ \E a \in TimeSpecs, b \in TimeSpecs :
       \E now_a \in SamplesFor(a), now_b \in SamplesFor(b) :
          /\ call' = [op |-> "time-add", a |-> a, b |-> b, now_a |-> now_a,
                      now_b |-> now_b]
          /\ ret' = time_add_lisp(a, b, now_a, now_b)
                     @@ [clock |-> time_arith_clock_reads(
                                       a, b, lisp_time_struct(a, Ptr(0), now_a))]
    /\ pc' = "done"
    /\ UNCHANGED procvars

CallTimeSubtract ==
    /\ pc = "idle"
    /\ \E a \in TimeSpecs, b \in TimeSpecs :
       \E now_a \in SamplesFor(a), now_b \in SamplesFor(b) :
          /\ call' = [op |-> "time-subtract", a |-> a, b |-> b, now_a |-> now_a,
                      now_b |-> now_b]
          /\ ret' = time_subtract_lisp(a, b, now_a, now_b)
                     @@ [clock |-> time_arith_clock_reads(
                                       a, b, lisp_time_struct(a, Ptr(0), now_a))]
    /\ pc' = "done"
    /\ UNCHANGED procvars

\* time_add and time_subtract applied to two time values, and each applied
\* to what the other gave.
CallTimeAddSubtract ==
    /\ pc = "idle"
    /\ \E ta \in NormalTimes, tb \in NormalTimes :
          /\ call' = [op |-> "time_add, time_subtract", ta |-> ta, tb |-> tb]
          /\ ret' = [sum |-> time_add(ta, tb),
                     sum_swapped |-> time_add(tb, ta),
                     difference |-> time_subtract(ta, tb),
                     sum_less_tb |-> time_subtract(time_add(ta, tb), tb),
                     difference_plus_tb |-> time_add(time_subtract(ta, tb), tb)]
    /\ pc' = "done"
    /\ UNCHANGED procvars

CallLispToTimespec ==
    /\ pc = "idle"
    /\ \E t \in TimeValues :
          /\ call' = [op |-> "lisp_to_timespec", t |-> t]
          /\ ret' = lisp_to_timespec(t)
    /\ pc' = "done"
    /\ UNCHANGED procvars

\* The primitive has returned (or signalled); the program goes on.
Return ==
    /\ pc = "done"
    /\ pc' = "idle"
    /\ call' = NoCall
    /\ ret' = NoValue
    /\ UNCHANGED procvars

Next ==
    \/ CallDisassembleLispTime
    \/ CallDecodeTimeComponents
    \/ CallLispTimeStruct
    \/ CallCurrentTime
    \/ CallFloatTime
    \/ CallTimeAdd
    \/ CallTimeSubtract
    \/ CallTimeAddSubtract
    \/ CallLispToTimespec
    \/ Return

Spec == Init /\ [][Next]_vars

----------------------------------------------------------------------------
(* Processes: the objects of rust_src/src/process.rs *)

\* The processes of Vprocess_alist, in its order.
ProcIds == {1, 2}

\* The name of each process, in the order of Vprocess_alist.
ProcNames == <<"p1", "p2", "p3", "p4">>

Buffers == {"b1", "b2"}

CurrentBuffer == "b1"

StringObj(s) == [tag |-> "string", s |-> s]

ProcessObj(i) == [tag |-> "process", id |-> i]

BufferObj(b) == [tag |-> "buffer", name |-> b]

is_string(x) == x.tag = "string"

is_process(x) == x.tag = "process"

is_buffer(x) == x.tag = "buffer"

\* A process status: a symbol, or a cons of a symbol and a code.
Sym(s) == [cons |-> FALSE, sym |-> s, code |-> 0]

SymCode(s, c) == [cons |-> TRUE, sym |-> s, code |-> c]

\* The fields of a Lisp_Process the functions below read or write; exited
\* says that the child has terminated and has not been reaped yet, deleted
\* that the process has left Vprocess_alist.
Process(type, buffer, infd, pid, command, status, filter, pty_flag) ==
    [type |-> type, buffer |-> buffer, infd |-> infd, pid |-> pid, command |-> command,
     status |-> status, filter |-> filter, pty_flag |-> pty_flag,
     alive |-> type = "real", exited |-> FALSE, deleted |-> FALSE]

\* process_type.eq(Qnetwork) || process_type.eq(Qserial) || process_type.eq(Qpipe)
is_connection(p) == p.type \in {"network", "serial", "pipe"}

ProcessDoesNotExist == "Process does not exist"

BufferHasNoProcess == "Buffer has no process"

WrongTypeProcessp == "Wrong type argument: processp"

NotASubprocess == "Process is not a subprocess"

NotActive == "Process is not active"

\* What get_process gives: the process found, or the error signalled.
Found(i) == [err |-> NoError, id |-> i]

NotFound(err) == [err |-> err, id |-> 0]

\* The processes of Vprocess_alist.
Listed(ps) == {i \in DOMAIN ps : ~ps[i].deleted}

\* (get-process NAME) for a string: cdr(assoc(name, Vprocess_alist)).
get_process_lisp(name, ps) ==
    IF is_process(name) THEN name
    ELSE IF \E i \in Listed(ps) : ProcNames[i] = name.s
         THEN ProcessObj(CHOOSE i \in Listed(ps) : ProcNames[i] = name.s)
         ELSE Qnil

\* get_buffer: the buffer of that name, or nil.
get_buffer(name) == IF name.s \in Buffers THEN BufferObj(name.s) ELSE Qnil

\* for_each_process: the first process whose buffer is b.
get_buffer_process_internal(b, ps) ==
    IF \E i \in Listed(ps) : ps[i].buffer = b
    THEN Found(CHOOSE i \in Listed(ps) :
                   /\ ps[i].buffer = b
                   /\ \A j \in Listed(ps) : ps[j].buffer = b => i <= j)
    ELSE NotFound(BufferHasNoProcess)

\* The object get_process looks at once a name has been resolved.
proc_or_buf(name, ps) ==
    IF is_string(name) THEN
        IF ~is_nil(get_process_lisp(name, ps)) THEN get_process_lisp(name, ps)
        ELSE get_buffer(name)
    ELSE IF is_nil(name) THEN BufferObj(CurrentBuffer)
    ELSE name

\* get_process once the name is resolved to obj; nil is a name that is
\* neither a process nor a buffer, for which get_process has signalled.
get_process_resolved(obj, ps) ==
    IF is_nil(obj) THEN NotFound(ProcessDoesNotExist)
    ELSE IF is_buffer(obj) THEN get_buffer_process_internal(obj.name, ps)
    ELSE IF is_process(obj) THEN Found(obj.id)
    ELSE NotFound(WrongTypeProcessp)

get_process(name, ps) == get_process_resolved(proc_or_buf(name, ps), ps)

\* if let Some((a, _)) = status.into() { status = a; }
status_symbol(status) == status.sym

\* The symbol process_status returns for the process p.
process_status_symbol(p) ==
    IF is_connection(p) THEN
        IF status_symbol(p.status) = "exit" THEN "closed"
        ELSE IF p.command = "t" THEN "stop"
        ELSE IF status_symbol(p.status) = "run" THEN "open"
        ELSE status_symbol(p.status)
    ELSE status_symbol(p.status)

\* After get_process gave g.
process_status_found(g, ps) ==
    IF g.err # NoError THEN [err |-> g.err, val |-> ""]
    ELSE [err |-> NoError, val |-> process_status_symbol(ps[g.id])]

\* (process-status PROCESS): [err, val], the symbol returned or the error
\* signalled.
process_status(process, ps) == process_status_found(get_process(process, ps), ps)

----------------------------------------------------------------------------
(* process_send_signal *)

\* What the tty says the foreground process group is, in a build with the
\* feature tiocgpgrp; without the feature nothing is asked.
TtyPgrp(gid) == [asked |-> TRUE, gid |-> gid]

NoTtyPgrp == [asked |-> FALSE, gid |-> 0]

\* The first tests: a real subprocess with an open descriptor.
send_signal_checks(p) ==
    IF p.type # "real" THEN NotASubprocess
    ELSE IF p.infd < 0 THEN NotActive
    ELSE NoError

\* if !p_ref.pty_flag() { current_group = Qnil; }
effective_group(p, current_group) == IF ~p.pty_flag THEN "nil" ELSE current_group

\* gid: the shell's own group, or the group that owns the terminal.
signal_gid(p, current_group, tty) ==
    IF current_group = "nil" THEN p.pid
    ELSE IF tty.asked THEN (IF tty.gid = -1 THEN p.pid ELSE tty.gid)
    ELSE p.pid

\* no_pgrp: set when even the pid of the process gives no group.
signal_no_pgrp(p, current_group, tty) ==
    current_group # "nil" /\ tty.asked /\ signal_gid(p, current_group, tty) = -1

\* let pid: pid_t = if no_pgrp { -gid } else { gid };
signal_pid(no_pgrp, gid) == IF no_pgrp THEN -gid ELSE gid

\* How the signal goes out: as a control character down the pty (a build
\* with signals-via-characters, for a signal that has a character), not at
\* all (current_group is lambda and the shell owns the terminal), or by
\* kill.
signal_path(p, current_group, via_character, tty) ==
    IF current_group # "nil" /\ via_character THEN "character"
    ELSE IF current_group = "lambda" /\ signal_gid(p, current_group, tty) = p.pid
    THEN "none"
    ELSE "kill"

\* What process_send_signal has decided when it reaches its last block:
\* [err, path, id, gid, no_pgrp, pid].
Signal(err, path, id, gid, no_pgrp) ==
    [err |-> err, path |-> path, id |-> id, gid |-> gid, no_pgrp |-> no_pgrp,
     pid |-> signal_pid(no_pgrp, gid)]

\* After the tests, for the process p of the id i and the effective group.
send_signal_decided(i, p, current_group, via_character, tty) ==
    Signal(NoError, signal_path(p, current_group, via_character, tty), i,
           signal_gid(p, current_group, tty), signal_no_pgrp(p, current_group, tty))

\* After get_process gave g.
send_signal_found(g, current_group, via_character, tty, ps) ==
    IF g.err # NoError THEN Signal(g.err, "error", 0, 0, FALSE)
    ELSE IF send_signal_checks(ps[g.id]) # NoError
    THEN Signal(send_signal_checks(ps[g.id]), "error", g.id, 0, FALSE)
    ELSE send_signal_decided(g.id, ps[g.id], effective_group(ps[g.id], current_group),
                             via_character, tty)

\* process_send_signal up to its last block.
process_send_signal(process, current_group, via_character, tty, ps) ==
    send_signal_found(get_process(process, ps), current_group, via_character, tty, ps)

\* if signo == libc::SIGCONT: the process is running again.
signal_continues(ps, i, signo) ==
    IF signo = "SIGCONT" THEN [ps EXCEPT ![i].status = Sym("run")] ELSE ps

\* The last block with the test of alive before the signals are blocked.
send_signal_steps_test_first == <<"test", "block", "kill", "unblock">>

\* The last block of process_send_signal, statement by statement.
send_signal_steps == <<"block", "test", "kill", "unblock">>

\* A call of kill as the system sees it; reaped says that the process had
\* been reaped when the call was made.
Kill(pid, signo, reaped) == [pid |-> pid, signo |-> signo, reaped |-> reaped]

----------------------------------------------------------------------------
(* stop-process, continue-process, kill_buffer_processes *)

\* The processes and the read set a primitive leaves, the processes it
\* deleted, the calls of kill it made, and the error it signalled.
World(ps, fds, deleted, kills, err) ==
    [procs |-> ps, read_fds |-> fds, deleted |-> deleted, kills |-> kills, err |-> err]

\* delete_read_fd(p_ref.infd); p_ref.command = Qt;
stop_connection(ps, fds, i) ==
    World([ps EXCEPT ![i].command = "t"], fds \ {ps[i].infd}, <<>>, <<>>, NoError)

\* The test without the case of a listening server.
connection_resumes_filter_only(p) ==
    p.command = "t" /\ p.infd >= 0 /\ p.filter # "t"

\* The test under which continue-process reads from the connection again.
connection_resumes(p) ==
    p.command = "t" /\ p.infd >= 0 /\ (p.filter # "t" \/ p.status = Sym("listen"))

\* add_process_read_fd under the test; p_ref.command = Qnil;
continue_connection(ps, fds, i) ==
    World([ps EXCEPT ![i].command = "nil"],
          IF connection_resumes(ps[i]) THEN fds \cup {ps[i].infd} ELSE fds,
          <<>>, <<>>, NoError)

\* Fdelete_process: the process leaves Vprocess_alist and its descriptor is
\* closed.
Fdelete_process(w, i) ==
    [w EXCEPT !.procs = [w.procs EXCEPT ![i].deleted = TRUE, ![i].infd = -1],
              !.read_fds = w.read_fds \ {w.procs[i].infd},
              !.deleted = Append(w.deleted, i)]

\* process_send_signal(process, SIGHUP, Qnil, true) as kill_buffer_processes
\* calls it, sg being what it decided: the error leaves the loop.
kill_buffer_signalled(w, sg) ==
    IF sg.err # NoError THEN [w EXCEPT !.err = sg.err]
    ELSE IF sg.path = "kill" /\ w.procs[sg.id].alive
    THEN [w EXCEPT !.kills = Append(w.kills, Kill(sg.pid, "SIGHUP", FALSE))]
    ELSE w

\* The body of the loop for the process i.
kill_buffer_process(i, p, buffer, w) ==
    IF p.deleted THEN w
    ELSE IF is_connection(p) THEN
        IF is_nil(buffer) \/ (is_buffer(buffer) /\ p.buffer = buffer.name)
        THEN Fdelete_process(w, i)
        ELSE IF p.infd >= 0
        THEN kill_buffer_signalled(
                 w, process_send_signal(ProcessObj(i), "nil", FALSE, NoTtyPgrp, w.procs))
        ELSE w
    ELSE w

RECURSIVE kill_buffer_loop(_, _, _)
\* for_each_process from the process i on; an error ends the loop.
kill_buffer_loop(i, buffer, w) ==
    IF i \notin ProcIds \/ w.err # NoError THEN w
    ELSE kill_buffer_loop(i + 1, buffer, kill_buffer_process(i, w.procs[i], buffer, w))

kill_buffer_processes(buffer, ps, fds) ==
    kill_buffer_loop(1, buffer, World(ps, fds, <<>>, <<>>, NoError))

----------------------------------------------------------------------------
(* The processes a session starts with, and the arguments of the calls *)

\* Real subprocesses, with or without a pty, the descriptor open or closed
RealProfiles(i, ptys) ==
    {Process("real", b, fd, 100 + i, "list", Sym("run"), "fn", pty) :
        b \in Buffers, fd \in {-1, 4 + i}, pty \in ptys}

\* Network connections: running, listening or closed, stopped or not
NetworkProfiles(i) ==
    {Process("network", b, fd, 0, cmd, st, flt, FALSE) :
        b \in Buffers, fd \in {-1, 4 + i}, cmd \in {"nil", "t"},
        st \in {Sym("run"), Sym("listen"), SymCode("exit", 0)}, flt \in {"fn", "t"}}

\* Serial and pipe connections
OtherProfiles(i) ==
    {Process(ty, b, 4 + i, 0, "nil", Sym("run"), "fn", FALSE) :
        ty \in {"serial", "pipe"}, b \in Buffers}

\* The first process takes every profile, the others the plain ones
ProcessProfiles(i) ==
    IF i = 1 THEN RealProfiles(i, BOOLEAN) \cup NetworkProfiles(i) \cup OtherProfiles(i)
    ELSE RealProfiles(i, {FALSE})
         \cup {Process("network", b, 4 + i, 0, "nil", Sym("run"), "fn", FALSE) :
                  b \in Buffers}

InitialProcs ==
    {ps \in [ProcIds -> UNION {ProcessProfiles(i) : i \in ProcIds}] :
        \A i \in ProcIds : ps[i] \in ProcessProfiles(i)}

\* The descriptors the main loop reads from at the start: those of the
\* processes that are not stopped and whose filter is not t
InitialReadFds(ps) ==
    {ps[i].infd : i \in {j \in DOMAIN ps :
        /\ ps[j].infd >= 0
        /\ ~(is_connection(ps[j]) /\ ps[j].command = "t")
        /\ (ps[j].filter # "t" \/ ps[j].status = Sym("listen"))}}

\* The PROCESS argument of a primitive
ProcessArgs ==
    {ProcessObj(i) : i \in ProcIds}
    \cup {Qnil, BufferObj("b2"), StringObj("p1"), StringObj("b2"), StringObj("nope"),
          Fixnum(0)}

\* The buffer kill_buffer_processes is called with
BufferArgs == {Qnil} \cup {BufferObj(b) : b \in Buffers}

\* current_group, whether this build sends the signal as a character, and
\* what the tty says
GroupInputs ==
    {<<"nil", FALSE, NoTtyPgrp>>, <<"t", TRUE, NoTtyPgrp>>}
    \cup {<<cg, FALSE, tty>> :
            cg \in {"t", "lambda"},
            tty \in {NoTtyPgrp, TtyPgrp(-1), TtyPgrp(101), TtyPgrp(777)}}

\* The signals that have a control character
CharacterSignals == {"SIGINT", "SIGQUIT", "SIGTSTP"}

ProcessInit ==
    /\ pc = "idle"
    /\ call = NoCall
    /\ ret = NoValue
    /\ procs \in InitialProcs
    /\ read_fds = InitialReadFds(procs)
    /\ blocked = FALSE

----------------------------------------------------------------------------
(* The process primitives *)

\* What a primitive that may signal a process has reached: the error it
\* signalled, what process_send_signal decided, the statement of its last
\* block it is at, what the test of alive saw, and the calls of kill made.
Sending(err, sig, signo) ==
    [err |-> err, sig |-> sig, signo |-> signo, step |-> 1, alive_seen |-> FALSE,
     tested_blocked |-> FALSE, kills |-> <<>>]

\* A connection was stopped or continued: no signal is sent.
NoSignal(i) == Signal(NoError, "connection", i, 0, FALSE)

CallProcessStatus ==
    /\ pc = "idle"
    /\ \E process \in ProcessArgs :
          /\ call' = [op |-> "process-status", process |-> process]
          /\ ret' = process_status(process, procs)
    /\ pc' = "done"
    /\ UNCHANGED procvars

\* process_send_signal(process, signo, current_group, false) called by the
\* primitive op, up to its last block.
BeginSignal(op, process, signo, gi) ==
    LET sg == process_send_signal(process, gi[1], gi[2], gi[3], procs)
        kills == sg.err = NoError /\ sg.path = "kill"
    IN  /\ gi[2] => signo \in CharacterSignals
        /\ call' = [op |-> op, process |-> process, signo |-> signo,
                    current_group |-> gi[1], via_character |-> gi[2], tty |-> gi[3]]
        /\ ret' = Sending(sg.err, sg, signo)
        /\ pc' = IF kills THEN "signal" ELSE "done"
        /\ procs' = IF kills THEN signal_continues(procs, sg.id, signo) ELSE procs
        /\ UNCHANGED <<read_fds, blocked>>

\* The primitive op left with the world w and no signal sent.
LeaveWith(op, process, w, i) ==
    /\ call' = [op |-> op, process |-> process, signo |-> "", current_group |-> "nil",
                via_character |-> FALSE, tty |-> NoTtyPgrp]
    /\ ret' = Sending(w.err, NoSignal(i), "")
    /\ pc' = "done"
    /\ procs' = w.procs
    /\ read_fds' = w.read_fds
    /\ UNCHANGED blocked

CallInterruptProcess ==
    /\ pc = "idle"
    /\ \E i \in ProcIds, gi \in GroupInputs :
          BeginSignal("internal-default-interrupt-process", ProcessObj(i), "SIGINT", gi)

CallKillProcess ==
    /\ pc = "idle"
    /\ \E process \in ProcessArgs, gi \in GroupInputs :
          BeginSignal("kill-process", process, "SIGKILL", gi)

CallQuitProcess ==
    /\ pc = "idle"
    /\ \E i \in ProcIds, gi \in GroupInputs :
          BeginSignal("quit-process", ProcessObj(i), "SIGQUIT", gi)

CallStopProcess ==
    /\ pc = "idle"
    /\ \E process \in ProcessArgs, gi \in GroupInputs :
          LET g == get_process(process, procs)
          IN  IF g.err = NoError /\ is_connection(procs[g.id])
              THEN gi[1] = "nil"
                   /\ LeaveWith("stop-process", process,
                                stop_connection(procs, read_fds, g.id), g.id)
              ELSE BeginSignal("stop-process", process, "SIGTSTP", gi)

CallContinueProcess ==
    /\ pc = "idle"
    /\ \E process \in ProcessArgs, gi \in GroupInputs :
          IF ~is_process(process)
          THEN gi[1] = "nil"
               /\ LeaveWith("continue-process", process,
                            World(procs, read_fds, <<>>, <<>>, WrongTypeProcessp), 0)
          ELSE IF is_connection(procs[process.id])
          THEN gi[1] = "nil"
               /\ LeaveWith("continue-process", process,
                            continue_connection(procs, read_fds, process.id), process.id)
          ELSE BeginSignal("continue-process", process, "SIGCONT", gi)

CallKillBufferProcesses ==
    /\ pc = "idle"
    /\ \E buffer \in BufferArgs :
          /\ call' = [op |-> "kill_buffer_processes", buffer |-> buffer, procs |-> procs]
          /\ ret' = kill_buffer_processes(buffer, procs, read_fds)
          /\ procs' = kill_buffer_processes(buffer, procs, read_fds).procs
          /\ read_fds' = kill_buffer_processes(buffer, procs, read_fds).read_fds
    /\ pc' = "done"
    /\ UNCHANGED blocked

\* The statement the last block of process_send_signal is at.
AtStep(name) ==
    /\ pc = "signal"
    /\ send_signal_steps[ret.step] = name
    /\ pc' = IF ret.step = Len(send_signal_steps) THEN "done" ELSE "signal"
    /\ UNCHANGED <<call, read_fds>>

\* block_child_signal(&mut oldset);
SignalBlock ==
    /\ AtStep("block")
    /\ blocked' = TRUE
    /\ ret' = [ret EXCEPT !.step = @ + 1]
    /\ UNCHANGED procs

\* if p_ref.alive()
SignalTest ==
    /\ AtStep("test")
    /\ ret' = [ret EXCEPT !.step = @ + 1, !.alive_seen = procs[ret.sig.id].alive,
                          !.tested_blocked = blocked]
    /\ UNCHANGED <<procs, blocked>>

\* libc::kill(pid, signo);
SignalKill ==
    /\ AtStep("kill")
    /\ ret' = [ret EXCEPT !.step = @ + 1,
                          !.kills = IF ret.alive_seen
                                    THEN Append(@, Kill(ret.sig.pid, ret.signo,
                                                        ~procs[ret.sig.id].alive))
                                    ELSE @]
    /\ UNCHANGED <<procs, blocked>>

\* unblock_child_signal(&mut oldset);
SignalUnblock ==
    /\ AtStep("unblock")
    /\ blocked' = FALSE
    /\ ret' = [ret EXCEPT !.step = @ + 1]
    /\ UNCHANGED procs

\* A subprocess terminates: its SIGCHLD is pending.
ChildExits ==
    /\ pc \in {"idle", "signal"}
    /\ \E i \in ProcIds :
          /\ procs[i].type = "real" /\ procs[i].alive /\ ~procs[i].exited
          /\ procs' = [procs EXCEPT ![i].exited = TRUE]
    /\ UNCHANGED <<pc, call, ret, read_fds, blocked>>

\* The handler of SIGCHLD runs, child signals not being blocked, and reaps
\* a terminated subprocess: it is no longer alive and its pid is free.
HandleChildSignal ==
    /\ pc \in {"idle", "signal"}
    /\ ~blocked
    /\ \E i \in ProcIds :
          /\ procs[i].exited /\ procs[i].alive
          /\ procs' = [procs EXCEPT ![i].alive = FALSE,
                                    ![i].status = SymCode("exit", 0)]
    /\ UNCHANGED <<pc, call, ret, read_fds, blocked>>

ProcessNext ==
    \/ CallProcessStatus
    \/ CallInterruptProcess
    \/ CallKillProcess
    \/ CallQuitProcess
    \/ CallStopProcess
    \/ CallContinueProcess
    \/ CallKillBufferProcesses
    \/ SignalBlock
    \/ SignalTest
    \/ SignalKill
    \/ SignalUnblock
    \/ ChildExits
    \/ HandleChildSignal
    \/ Return

ProcessSpec == ProcessInit /\ [][ProcessNext]_vars

----------------------------------------------------------------------------
(* The scanner of rust_src/build.rs that collects the exported functions *)

\* A line is the sequence of the pieces of text the scanner can tell apart;
\* a name is the sequence of the pieces between two of them.
LispFnAttr == "#[lisp_fn"

NoMangleAttr == "#[no_mangle]"

CommentOpen == "/*"

CommentClose == "*/"

PubKw == "pub"

FnKw == "fn "

Paren == "("

Quote == "\""

C_NAME == "c_name = \""

IncludeOutDir == "include!(concat!(env!(\"OUT_DIR\"),"

\* line.starts_with(piece)
starts_with(line, piece) == Len(line) > 0 /\ line[1] = piece

\* line.ends_with(piece)
ends_with(line, piece) == Len(line) > 0 /\ line[Len(line)] = piece

Positions(line, piece, from) == {k \in from .. Len(line) : line[k] = piece}

\* line[from..].find(piece): the first position, 0 for None.
find_from(line, piece, from) ==
    IF Positions(line, piece, from) = {} THEN 0
    ELSE CHOOSE k \in Positions(line, piece, from) :
             \A j \in Positions(line, piece, from) : k <= j

find(line, piece) == find_from(line, piece, 1)

NoName == [some |-> FALSE, name |-> <<>>]

SomeName(name) == [some |-> TRUE, name |-> name]

\* The name between "fn " and the first parenthesis, if the line has both.
get_function_name(line) ==
    IF find(line, Paren) # 0 /\ find(line, FnKw) # 0
    THEN SomeName(SubSeq(line, find(line, FnKw) + 1, find(line, Paren) - 1))
    ELSE NoName

\* The text after c_name = " up to the next quote.
c_name_of(line) ==
    SubSeq(line, find(line, C_NAME) + 1,
           find_from(line, Quote, find(line, C_NAME) + 1) - 1)

\* name.starts_with('$'): the name is that of a macro argument.
is_macro_name(name) == Len(name) > 0 /\ name[1] = "$"

\* A `pub use` line written to c_exports.rs; prefix is F for a lisp_fn.
PubUse(modname, prefix, func) == [modname |-> modname, prefix |-> prefix, func |-> func]

\* What c_exports_for_module keeps from one line to the next.
Scanner(parse_state, name, has_lisp_fns, has_include, exported, out) ==
    [parse_state |-> parse_state, name |-> name, has_lisp_fns |-> has_lisp_fns,
     has_include |-> has_include, exported |-> exported, out |-> out]

\* The state with which an attribute with a c_name on its line is left.
lisp_fn_named(name) ==
    IF is_macro_name(name) THEN "Looking" ELSE "LispFn"

\* ParseState::Looking =>
scan_looking(st, line) ==
    IF starts_with(line, LispFnAttr) THEN
        IF find(line, C_NAME) # 0
        THEN [st EXCEPT !.parse_state = lisp_fn_named(c_name_of(line)),
                        !.name = IF is_macro_name(c_name_of(line)) THEN NoName
                                 ELSE SomeName(c_name_of(line)),
                        !.has_lisp_fns = TRUE]
        ELSE [st EXCEPT !.parse_state = "LispFn", !.name = NoName, !.has_lisp_fns = TRUE]
    ELSE IF starts_with(line, NoMangleAttr) THEN [st EXCEPT !.parse_state = "NoMangleFn"]
    ELSE IF starts_with(line, CommentOpen) THEN
        IF ~ends_with(line, CommentClose)
        THEN [st EXCEPT !.parse_state = "IgnoreComments"]
        ELSE st
    ELSE IF starts_with(line, IncludeOutDir) THEN [st EXCEPT !.has_include = TRUE]
    ELSE st

\* ParseState::IgnoreComments =>
scan_ignore_comments(st, line) ==
    IF starts_with(line, CommentClose) \/ ends_with(line, CommentClose)
    THEN [st EXCEPT !.parse_state = "Looking"]
    ELSE st

\* The function exported under the name func.
lisp_fn_exported(st, modname, func) ==
    [st EXCEPT !.out = Append(@, PubUse(modname, "F", func)),
               !.exported = Append(@, func)]

\* name.or_else(|| get_function_name(&line))
name_or_else(name, line) == IF name.some THEN name ELSE get_function_name(line)

\* ParseState::LispFn(name) =>
scan_lisp_fn(st, line, modname) ==
    [(IF (starts_with(line, PubKw) \/ starts_with(line, FnKw))
         /\ name_or_else(st.name, line).some
      THEN lisp_fn_exported(st, modname, name_or_else(st.name, line).name)
      ELSE st)
     EXCEPT !.parse_state = "Looking", !.name = NoName]

\* ParseState::NoMangleFn =>
scan_no_mangle_fn(st, line, modname) ==
    [(IF starts_with(line, PubKw) /\ get_function_name(line).some
      THEN [st EXCEPT !.out = Append(@, PubUse(modname, "", get_function_name(line).name))]
      ELSE st)
     EXCEPT !.parse_state = "Looking"]

MissingInclude == "missing the required include for lisp_fn exports"

\* After the last line: the file of export_lisp_fns! is written if the
\* module has lisp_fns, and the build panics if the include is missing.
exports_written(st) ==
    [err |-> IF st.has_lisp_fns /\ ~st.has_include THEN MissingInclude ELSE NoError,
     val |-> st.has_lisp_fns,
     exports_file |-> IF st.has_lisp_fns THEN <<st.exported>> ELSE <<>>]

----------------------------------------------------------------------------
(* The module files the scanner is run over *)

\* The number of items of a module file.
MaxItems == 3

ModName == "textprop"

\* The name of the fn of the item k, and the c_name of its attribute.
FnName(k) == <<"fn", ToString(k)>>

CName(k) == <<"c", ToString(k)>>

PubFnLine(k) == <<PubKw, " ", FnKw>> \o FnName(k) \o <<Paren, "start: LispObject">>

ItemKinds ==
    {"lisp_fn", "lisp_fn c_name", "lisp_fn private", "lisp_fn several lines",
     "no_mangle", "comment block", "comment line", "include", "code"}

\* The lines of the item k of the kind.
ItemLines(kind, k) ==
    CASE kind = "lisp_fn" -> <<<<LispFnAttr, "]">>, PubFnLine(k)>>
      [] kind = "lisp_fn c_name" ->
            <<<<LispFnAttr, Paren, C_NAME>> \o CName(k) \o <<Quote, ")]">>, PubFnLine(k)>>
      [] kind = "lisp_fn private" ->
            <<<<LispFnAttr, "]">>, <<FnKw>> \o FnName(k) \o <<Paren, ")">>>>
      [] kind = "lisp_fn several lines" ->
            << <<LispFnAttr, Paren>>,
               <<"    ", C_NAME>> \o CName(k) \o <<Quote, ",">>,
               <<")]">>,
               PubFnLine(k) >>
      [] kind = "no_mangle" -> <<<<NoMangleAttr>>, PubFnLine(k)>>
      [] kind = "comment block" ->
            <<<<CommentOpen, " text">>, <<LispFnAttr, "]">>, PubFnLine(k), <<CommentClose>>>>
      [] kind = "comment line" -> <<<<CommentOpen, " text ", CommentClose>>>>
      [] kind = "include" -> <<<<IncludeOutDir, " \"/textprop_exports.rs\"));">>>>
      [] OTHER -> <<<<"use lisp::defsubr;">>>>

\* The names under which the item k is to be exported, in order.
ItemExports(kind, k) ==
    CASE kind \in {"lisp_fn", "lisp_fn private"} -> <<FnName(k)>>
      [] kind \in {"lisp_fn c_name", "lisp_fn several lines"} -> <<CName(k)>>
      [] OTHER -> <<>>

RECURSIVE FileLines(_, _)
\* The lines of the file made of the items from the k-th on.
FileLines(items, k) ==
    IF k > Len(items) THEN <<>>
    ELSE ItemLines(items[k], k) \o FileLines(items, k + 1)

RECURSIVE FileExports(_, _)
\* The names the file is to export from the k-th item on.
FileExports(items, k) ==
    IF k > Len(items) THEN <<>>
    ELSE ItemExports(items[k], k) \o FileExports(items, k + 1)

ModuleFiles == UNION {[1 .. n -> ItemKinds] : n \in 1 .. MaxItems}

\* c_exports_for_module(modname, out_file, in_file) before the first line.
CallCExportsForModule ==
    /\ pc = "idle"
    /\ \E items \in ModuleFiles :
          call' = [op |-> "c_exports_for_module", modname |-> ModName, items |-> items,
                   lines |-> FileLines(items, 1)]
    /\ ret' = Scanner("Looking", NoName, FALSE, FALSE, <<>>, <<>>) @@ [n |-> 1]
    /\ pc' = "scan"
    /\ UNCHANGED procvars

\* The scanner is at a line, in the state parse_state.
AtLine(parse_state) ==
    /\ pc = "scan"
    /\ ret.n <= Len(call.lines)
    /\ ret.parse_state = parse_state
    /\ UNCHANGED <<pc, call, procs, read_fds, blocked>>

ScanLooking ==
    /\ AtLine("Looking")
    /\ ret' = [n |-> ret.n + 1] @@ scan_looking(ret, call.lines[ret.n])

ScanIgnoreComments ==
    /\ AtLine("IgnoreComments")
    /\ ret' = [n |-> ret.n + 1] @@ scan_ignore_comments(ret, call.lines[ret.n])

ScanLispFn ==
    /\ AtLine("LispFn")
    /\ ret' = [n |-> ret.n + 1] @@ scan_lisp_fn(ret, call.lines[ret.n], call.modname)

ScanNoMangleFn ==
    /\ AtLine("NoMangleFn")
    /\ ret' = [n |-> ret.n + 1] @@ scan_no_mangle_fn(ret, call.lines[ret.n], call.modname)

\* The lines are exhausted.
ScanEnd ==
    /\ pc = "scan"
    /\ ret.n > Len(call.lines)
    /\ ret' = exports_written(ret) @@ [out |-> ret.out, parse_state |-> ret.parse_state]
    /\ pc' = "done"
    /\ UNCHANGED <<call, procs, read_fds, blocked>>

ExportNext ==
    \/ CallCExportsForModule
    \/ ScanLooking
    \/ ScanIgnoreComments
    \/ ScanLispFn
    \/ ScanNoMangleFn
    \/ ScanEnd
    \/ Return

ExportSpec == Init /\ [][ExportNext]_vars

----------------------------------------------------------------------------
(* Notions the properties are stated with *)

Done(op) == pc = "done" /\ call.op = op

ArithDone == pc = "done" /\ call.op \in {"time-add", "time-subtract"}

\* The digits lo, us, ps are in their canonical ranges.
Normalized(t) ==
    /\ 0 <= t.lo /\ t.lo < LO_RADIX
    /\ 0 <= t.us /\ t.us < USEC_RADIX
    /\ 0 <= t.ps /\ t.ps < USEC_RADIX

\* (t.hi * 65536 + t.lo) * 10^12 + t.us * 10^6 + t.ps
\*    = (high * 65536 + low) * 10^12 + usec * 10^6 + psec,
\* decided digit by digit: the difference of the two sides is zero exactly
\* when each digit's difference, with the carry of the digits below it, is a
\* multiple of its radix and nothing is left over at the top.
SameInstant(t, high, low, usec, psec) ==
    LET dps == psec - t.ps
        dus == (usec - t.us) + (dps \div USEC_RADIX)
        dlo == (low - t.lo) + (dus \div USEC_RADIX)
    IN  /\ dps % USEC_RADIX = 0
        /\ dus % USEC_RADIX = 0
        /\ dlo % LO_RADIX = 0
        /\ (high - t.hi) + (dlo \div LO_RADIX) = 0

RECURSIVE ListLength(_)
\* The number of elements of a proper list; a dotted tail counts as none.
ListLength(x) == IF is_cons(x) THEN 1 + ListLength(x.cdr) ELSE 0

\* The first n fields of t as a list.
FirstFields(t, n) ==
    IF n = 2 THEN List2(Fixnum(t.hi), Fixnum(t.lo))
    ELSE IF n = 3 THEN List3(Fixnum(t.hi), Fixnum(t.lo), Fixnum(t.us))
    ELSE List4(Fixnum(t.hi), Fixnum(t.lo), Fixnum(t.us), Fixnum(t.ps))

\* t with the fields beyond the first n set to 0.
Truncated(t, n) ==
    LispTime(t.hi, t.lo, IF n >= 3 THEN t.us ELSE 0, IF n >= 4 THEN t.ps ELSE 0)

\* The LOW slot of a pair or list.
LowSlot(x) == IF is_cons(x.cdr) THEN x.cdr.car ELSE x.cdr

\* A pair or list whose low-order seconds field is no integer.
BadLow(x) == is_cons(x) /\ ~is_fixnum(LowSlot(x))

ZeroList == List4(Fixnum(0), Fixnum(0), Fixnum(0), Fixnum(0))

----------------------------------------------------------------------------
(* Properties *)

\* C1: decoding an integer tuple (high, low, usec, psec) that is accepted
\* preserves the instant: the stored time value represents the same number
\* of picoseconds as the tuple, out-of-range psec and usec being carried
\* upward; (0, 0, 1500000, 0) decodes to (0, 1, 500000, 0).
C1_DecodePreservesInstant ==
    ( /\ Done("decode_time_components")
      /\ is_fixnum(call.high) /\ is_fixnum(call.low)
      /\ is_fixnum(call.usec) /\ is_fixnum(call.psec)
      /\ ~is_null(call.result)
      /\ ret.val = 1 )
    => SameInstant(ret.result.at, call.high.n, call.low.n, call.usec.n, call.psec.n)

\* C2: the list time-add and time-subtract return has exactly
\* max(alen, blen) elements.
C2_ResultLength ==
    (ArithDone /\ ret.err = NoError)
    => ListLength(ret.val) = Max(ret.alen, ret.blen)

\* C3: the list time-add and time-subtract return is made of the first N
\* fields hi, lo, us, ps of the computed result, in that order, N being
\* max(alen, blen); the fields beyond N are dropped.
C3_ResultFields ==
    (ArithDone /\ ret.err = NoError)
    => ret.val = FirstFields(ret.t, Max(ret.alen, ret.blen))

\* C4: decoding the list built for a normalized result t and a length n
\* succeeds with effective length n and gives t with the fields beyond n
\* zeroed.
C4_RoundTrip ==
    (ArithDone /\ ret.err = NoError /\ Normalized(ret.t))
    => LET n == Max(ret.alen, ret.blen)
           back == lisp_time_struct(ret.val, Ptr(0), NoSample)
       IN  /\ back.err = NoError
           /\ back.plen.at = n
           /\ back.t = Truncated(ret.t, n)

\* C5: for normalized a and b, time_subtract(a, b) has lo, us and ps in
\* their canonical ranges and represents exactly a - b, the sign living in
\* hi alone; (0,0,0,0) - (0,1,0,0) is (-1, 65535, 0, 0).
C5_SubtractBorrows ==
    (Done("time-subtract") /\ ret.t # Unset /\ Normalized(ret.ta) /\ Normalized(ret.tb))
    => /\ Normalized(ret.t)
       /\ SameInstant(ret.t, ret.ta.hi - ret.tb.hi, ret.ta.lo - ret.tb.lo,
                      ret.ta.us - ret.tb.us, ret.ta.ps - ret.tb.ps)
       /\ (ret.ta = LispTime(0, 0, 0, 0) /\ ret.tb = LispTime(0, 1, 0, 0))
              => ret.t = LispTime(-1, LO_RADIX - 1, 0, 0)

\* C5 witness: a subtraction that borrows through every digit.
C5_Witness ==
    /\ Done("time-subtract")
    /\ ret.ta = LispTime(0, 0, 0, 0)
    /\ ret.tb = LispTime(0, 0, 0, 1)
    /\ ret.t = LispTime(-1, LO_RADIX - 1, USEC_RADIX - 1, USEC_RADIX - 1)

\* C6: for normalized a and b, time_add(a, b) has lo, us and ps in their
\* canonical ranges and represents exactly a + b, every carry taking the
\* carry below it into account.
C6_AddCarries ==
    (Done("time-add") /\ ret.t # Unset /\ Normalized(ret.ta) /\ Normalized(ret.tb))
    => /\ Normalized(ret.t)
       /\ SameInstant(ret.t, ret.ta.hi + ret.tb.hi, ret.ta.lo + ret.tb.lo,
                      ret.ta.us + ret.tb.us, ret.ta.ps + ret.tb.ps)

\* C6 witness: an addition whose carry out of ps ripples up to hi.
C6_Witness ==
    /\ Done("time-add")
    /\ ret.ta = LispTime(0, LO_RADIX - 1, USEC_RADIX - 1, USEC_RADIX - 1)
    /\ ret.tb = LispTime(0, 0, 0, 1)
    /\ ret.t = LispTime(1, 0, 0, 0)

\* C7: adding the zero time decoded from (0 0 0 0) to a valid time t gives
\* t unchanged in all four fields, whichever operand the zero is.
C7_AdditiveIdentity ==
    (Done("time-add") /\ ret.t # Unset)
    => /\ call.b = ZeroList => ret.t = ret.ta
       /\ call.a = ZeroList => ret.t = ret.tb

\* C7 witness: zero added to a time all of whose digits are at their top.
C7_Witness ==
    /\ Done("time-add")
    /\ call.a = ZeroList
    /\ ret.tb = LispTime(-1, LO_RADIX - 1, USEC_RADIX - 1, USEC_RADIX - 1)
    /\ ret.t = ret.tb

\* C8: whenever the hi computed by time-add or time-subtract is outside the
\* fixnum range, the overflow error is signalled and no list is returned.
C8_OverflowSignalled ==
    (ArithDone /\ ret.t # Unset
        /\ (ret.t.hi < MOST_NEGATIVE_FIXNUM \/ ret.t.hi > MOST_POSITIVE_FIXNUM))
    => ret.err = TimeOverflow /\ ret.val = NoValue

\* C8 witness: a subtraction whose hi falls below the most negative fixnum.
C8_Witness ==
    /\ Done("time-subtract")
    /\ ret.t # Unset
    /\ ret.t.hi < MOST_NEGATIVE_FIXNUM
    /\ ret.err = TimeOverflow

\* C9: a pair or list whose low-order seconds field is no integer is
\* refused: disassemble_lisp_time returns 0, and lisp_time_struct,
\* float-time, time-add and time-subtract signal the invalid-time error.
C9_BadLowRejected ==
    /\ (Done("disassemble_lisp_time") /\ BadLow(call.specified_time)) => ret.len = 0
    /\ (Done("lisp_time_struct") /\ BadLow(call.specified_time)) => ret.err = InvalidTime
    /\ (Done("float-time") /\ BadLow(call.time)) => ret.err = InvalidTime
    /\ (ArithDone /\ BadLow(call.a)) => ret.err = InvalidTime
    /\ (ArithDone /\ BadLow(call.b) /\ ret.ta # Unset) => ret.err = InvalidTime

\* C9 witness: float-time of (0 1.5 0 0).
C9_Witness ==
    /\ Done("float-time")
    /\ call.time = List4(Fixnum(0), LispFloat(Fin(FALSE, 0, 1, 500000, 0)), Fixnum(0),
                         Fixnum(0))
    /\ ret.err = InvalidTime

\* C10: every time value a successful decode stores has lo, us and ps in
\* their canonical ranges, whatever the sign or the excess of the input.
C10_DecodedNormalized ==
    /\ (Done("decode_time_components") /\ ret.val = 1 /\ ~is_null(call.result))
           => Normalized(ret.result.at)
    /\ (Done("lisp_time_struct") /\ ret.err = NoError) => Normalized(ret.t)
    /\ (ArithDone /\ ret.ta # Unset) => Normalized(ret.ta)
    /\ (ArithDone /\ ret.tb # Unset) => Normalized(ret.tb)

\* C10 witness: a decode of negative microseconds and picoseconds.
C10_Witness ==
    /\ Done("decode_time_components")
    /\ is_fixnum(call.low) /\ is_fixnum(call.usec) /\ is_fixnum(call.psec)
    /\ call.usec.n < 0 /\ call.psec.n < 0 /\ RustRem(call.usec.n, USEC_RADIX) < 0
    /\ ret.val = 1 /\ ~is_null(call.result)

\* A decode of four integers has returned.
DecodedInts ==
    /\ Done("decode_time_components")
    /\ is_fixnum(call.high) /\ is_fixnum(call.low)
    /\ is_fixnum(call.usec) /\ is_fixnum(call.psec)

\* What the decoder's normalisation computes for the integers of the call.
DecodedTime == normalize_components(call.high.n, call.low.n, call.usec.n, call.psec.n)

DecodedHi == DecodedTime.hi

WrongType ==
    \/ ~is_fixnum(call.high) \/ ~is_fixnum(call.usec) \/ ~is_fixnum(call.psec)
    \/ ~(is_fixnum(call.low) \/ is_float(call.low) \/ is_nil(call.low))

\* The real f lies in [-2^29 * 65536, 2^29 * 65536), the seconds whose hi is a
\* fixnum; NaN and the infinities do not.
FloatInSafeRange(f) ==
    /\ f.kind = "fin"
    /\ \/ f.hi < MOST_POSITIVE_FIXNUM + 1
       \/ f.neg /\ f.hi = MOST_POSITIVE_FIXNUM + 1 /\ f.lo + f.us + f.ps = 0 /\ ~f.sub

\* The time of the call is out of range.
OutOfRange ==
    /\ ~WrongType
    /\ IF is_float(call.low) THEN ~FloatInSafeRange(call.low.f)
       ELSE is_fixnum(call.low) /\ fixnum_overflow(DecodedHi)

\* A time specification of the duration zero.
ZeroSpecs ==
    {Fixnum(0), Cons(Fixnum(0), Fixnum(0)), List2(Fixnum(0), Fixnum(0)),
     List3(Fixnum(0), Fixnum(0), Fixnum(0)), ZeroList}

Slots(d) == [high |-> d.high, low |-> d.low, usec |-> d.usec, psec |-> d.psec]

\* C13: a decode that fails writes no output: when decode_time_components
\* returns 0 or -1, *result and *dresult hold what they held before the
\* call; when disassemble_lisp_time returns 0, its four slots do; when
\* lisp_time_struct signals an error, *plen does.
C13_ValidateBeforeMutate ==
    /\ (Done("decode_time_components") /\ ret.val \in {0, -1})
           => ret.result = call.result /\ ret.dresult = call.dresult
    /\ (Done("disassemble_lisp_time") /\ ret.len = 0) => Slots(ret) = call.out
    /\ (Done("lisp_time_struct") /\ ret.err # NoError) => ret.plen = call.plen

\* C13 witness: an out-of-range integer tuple decoded with both outputs
\* asked for, each holding a value of an earlier call.
C13_Witness ==
    /\ DecodedInts /\ ret.val = -1
    /\ ~is_null(call.result) /\ ~is_null(call.dresult)
    /\ ret.result.at = LispTime(11, 12, 13, 14)
    /\ ret.dresult.at = Fin(FALSE, 0, 7, 0, 0)

RECURSIVE ListTail(_)
\* What ends a chain of conses: nil for a proper list.
ListTail(x) == IF is_cons(x) THEN ListTail(x.cdr) ELSE x

\* x is a proper list of n elements.
ProperList(x, n) == ListLength(x) = n /\ is_nil(ListTail(x))

\* A disassembly of the length len with the fields bound to the slots.
Disassembled(len, high, low, usec, psec) ==
    [len |-> len, high |-> high, low |-> low, usec |-> usec, psec |-> psec]

\* C14: disassemble_lisp_time binds the fields by position and returns the
\* effective length of the shape: 2 for a bare integer (high 0, low the
\* integer), for (HIGH . LOW) and for (HIGH LOW); 3 for (HIGH LOW USEC) and
\* for the dotted (HIGH LOW . USEC); 4 for (HIGH LOW USEC PSEC); the fields a
\* shape lacks are 0; LOW being an integer in each list; and the value
\* returned is always one of 0, 2, 3, 4.
C14_LengthByShape ==
    Done("disassemble_lisp_time") =>
        LET st == call.specified_time
            zero == Fixnum(0)
        IN  /\ ret.len \in {0, 2, 3, 4}
            /\ is_fixnum(st) => ret = Disassembled(2, zero, st, zero, zero)
            /\ (is_cons(st) /\ is_fixnum(st.cdr))
                   => ret = Disassembled(2, st.car, st.cdr, zero, zero)
            /\ (ProperList(st, 2) /\ ~BadLow(st))
                   => ret = Disassembled(2, st.car, st.cdr.car, zero, zero)
            /\ (ProperList(st, 3) /\ ~BadLow(st))
                   => ret = Disassembled(3, st.car, st.cdr.car, st.cdr.cdr.car, zero)
            /\ (ListLength(st) = 2 /\ ~is_nil(ListTail(st)) /\ ~BadLow(st))
                   => ret = Disassembled(3, st.car, st.cdr.car, st.cdr.cdr, zero)
            /\ (ProperList(st, 4) /\ ~BadLow(st))
                   => ret = Disassembled(4, st.car, st.cdr.car, st.cdr.cdr.car,
                                         st.cdr.cdr.cdr.car)

\* C14 witness: the dotted (0 7 . 9) disassembled into slots that held the
\* fields of an earlier call.
C14_Witness ==
    /\ Done("disassemble_lisp_time")
    /\ call.specified_time = Cons(Fixnum(0), Cons(Fixnum(7), Fixnum(9)))
    /\ call.out # ZeroSlots
    /\ ret = Disassembled(3, Fixnum(0), Fixnum(7), Fixnum(9), Fixnum(0))

RECURSIVE Nth(_, _)
\* The i-th element of a list, counted from 1.
Nth(x, i) == IF i = 1 THEN x.car ELSE Nth(x.cdr, i - 1)

\* The time value t is the sample now, digit by digit.
Reconstructs(t, now) ==
    /\ 0 <= t.lo /\ t.lo < LO_RADIX
    /\ t.hi * LO_RADIX + t.lo = now.tv_sec
    /\ t.us = now.tv_nsec \div 1000
    /\ t.ps = (now.tv_nsec % 1000) * 1000
    /\ t.us * 1000 + t.ps \div 1000 = now.tv_nsec

\* C15: current-time returns a list (hi lo us ps) of four integers that
\* reconstructs the sample (sec, ns) of the clock exactly: 0 <= lo < 65536,
\* hi * 65536 + lo = sec, us = ns div 1000, ps = (ns mod 1000) * 1000; a
\* decode of the time nil stores the same four values.
C15_CurrentTimeReconstructs ==
    /\ Done("current-time")
           => /\ ret.err = NoError
              /\ ProperList(ret.val, 4)
              /\ \A i \in 1 .. 4 : is_fixnum(Nth(ret.val, i))
              /\ Reconstructs(LispTime(Nth(ret.val, 1).n, Nth(ret.val, 2).n,
                                       Nth(ret.val, 3).n, Nth(ret.val, 4).n), call.now)
    /\ ( /\ Done("decode_time_components") /\ is_nil(call.low)
          /\ is_fixnum(call.high) /\ is_fixnum(call.usec) /\ is_fixnum(call.psec)
          /\ ~is_null(call.result) )
           => ret.val = 1 /\ Reconstructs(ret.result.at, call.now)
    /\ (Done("lisp_time_struct") /\ is_nil(call.specified_time))
           => ret.err = NoError /\ Reconstructs(ret.t, call.now)

\* C15 witness: the clock one second before the epoch, 1999 ns into the
\* second.
C15_Witness ==
    /\ Done("current-time")
    /\ call.now = Timespec(-1, 1999)
    /\ ret.val = List4(Fixnum(-1), Fixnum(LO_RADIX - 1), Fixnum(1), Fixnum(999000))

\* The fields of the time x, when x is an accepted shape whose fields are
\* all integers.
FieldsOf(x) == disassemble_lisp_time(x, ZeroSlots)

IntegerTime(x) ==
    /\ FieldsOf(x).len # 0
    /\ is_fixnum(FieldsOf(x).high) /\ is_fixnum(FieldsOf(x).low)
    /\ is_fixnum(FieldsOf(x).usec) /\ is_fixnum(FieldsOf(x).psec)

\* The real high * 65536 + low + usec / 10^6 + psec / 10^12: the excess of
\* each field is carried upward with floored division, which leaves the sum
\* as it is and the digits canonical.
SecondsOf(high, low, usec, psec) ==
    LET us0 == usec + psec \div USEC_RADIX
        lo0 == low + us0 \div USEC_RADIX
    IN  ToFloat(high + lo0 \div LO_RADIX, lo0 % LO_RADIX, us0 % USEC_RADIX,
                psec % USEC_RADIX)

\* C16: float-time of a time whose fields are integers (the missing ones 0)
\* returns the float high * 65536 + low + usec / 10^6 + psec / 10^12.
C16_FloatTimeOfIntegers ==
    (Done("float-time") /\ IntegerTime(call.time))
        => /\ ret.err = NoError
           /\ ret.val = LispFloat(SecondsOf(FieldsOf(call.time).high.n,
                                            FieldsOf(call.time).low.n,
                                            FieldsOf(call.time).usec.n,
                                            FieldsOf(call.time).psec.n))

\* The time value make_lisp_time builds for the timespec c.
TimeOfTimespec(c) ==
    LispTime(hi_time(c.tv_sec).v, lo_time(c.tv_sec), c.tv_nsec \div 1000,
             (c.tv_nsec % 1000) * 1000)

\* hi * 65536 + lo is a time_t.
SecondsRepresentable(t) ==
    -(2 ^ (EMACS_INT_BITS - 1 - LO_TIME_BITS)) <= t.hi
        /\ t.hi < 2 ^ (EMACS_INT_BITS - 1 - LO_TIME_BITS)

\* C17: lisp_to_timespec inverts make_lisp_time: the time value built for a
\* timespec (s, ns), s of either sign, converts back to tv_sec = s and
\* tv_nsec = ns; and for every time value whose seconds are representable
\* tv_sec = hi * 65536 + lo and tv_nsec = us * 1000 + ps div 1000.
C17_TimespecInverse ==
    Done("lisp_to_timespec") =>
        /\ \A c \in ClockSamples : call.t = TimeOfTimespec(c) => ret = c
        /\ SecondsRepresentable(call.t)
               => /\ ret.tv_sec = call.t.hi * LO_RADIX + call.t.lo
                  /\ ret.tv_nsec = call.t.us * 1000 + call.t.ps \div 1000

\* A decode of a float into a time value has returned.
DecodedFloat ==
    /\ Done("decode_time_components") /\ is_float(call.low)
    /\ is_fixnum(call.high) /\ is_fixnum(call.usec) /\ is_fixnum(call.psec)
    /\ ~is_null(call.result)

\* C18: a float t is accepted exactly when
\* MOST_NEGATIVE_FIXNUM * 65536 <= t < -MOST_NEGATIVE_FIXNUM * 65536, NaN
\* being refused; for a refused t the result is not written and
\* decode_time_components returns -1.
C18_FloatRange ==
    DecodedFloat =>
        IF FloatInSafeRange(call.low.f) THEN ret.val = 1 /\ ret.result # call.result
        ELSE ret.val = -1 /\ ret.result = call.result

\* C18 witness: the excluded upper limit -MOST_NEGATIVE_FIXNUM * 65536 is
\* refused.
C18_Witness ==
    /\ DecodedFloat
    /\ call.low.f = Fin(FALSE, -MOST_NEGATIVE_FIXNUM, 0, 0, 0)
    /\ ret.val = -1 /\ ret.result = call.result

\* The digits of the real f floored at picosecond resolution:
\* hi = floor(f / 65536) and lo, us, ps canonical; a negative f with a
\* fraction of a picosecond floors to the picosecond below.
FloorDigits(f) ==
    LET sgn == IF f.neg THEN -1 ELSE 1
        ps0 == sgn * f.ps - (IF f.neg /\ f.sub THEN 1 ELSE 0)
        us0 == sgn * f.us + ps0 \div USEC_RADIX
        lo0 == sgn * f.lo + us0 \div USEC_RADIX
    IN  LispTime(sgn * f.hi + lo0 \div LO_RADIX, lo0 % LO_RADIX, us0 % USEC_RADIX,
                 ps0 % USEC_RADIX)

\* C19: an accepted float t decodes to hi = floor(t / 65536) with lo, us, ps
\* in their canonical ranges, the whole being t floored at picosecond
\* resolution; -1 gives (-1, 65535, 0, 0) and -0.5 gives
\* (-1, 65535, 500000, 0); hi is always a fixnum.
C19_FloatDecodeFloors ==
    (DecodedFloat /\ ret.val = 1)
        => /\ ret.result.at = FloorDigits(call.low.f)
           /\ Normalized(ret.result.at)
           /\ ~fixnum_overflow(ret.result.at.hi)
           /\ call.low.f = Fin(TRUE, 0, 1, 0, 0)
                  => ret.result.at = LispTime(-1, LO_RADIX - 1, 0, 0)
           /\ call.low.f = Fin(TRUE, 0, 0, 500000, 0)
                  => ret.result.at = LispTime(-1, LO_RADIX - 1, 500000, 0)

\* |a - b| < 10^-6 for two finite reals, decided on their floored digits
\* (each less than a picosecond below its real, so that a floored difference
\* of at most 999999 ps bounds the real one by 10^-6): the seconds differ by
\* at most one, and the difference in microseconds and the difference of the
\* picoseconds leave less than a microsecond.
WithinMicrosecond(a, b) ==
    LET da == FloorDigits(a)
        db == FloorDigits(b)
        dhi == da.hi - db.hi
        dus == (dhi * LO_RADIX + (da.lo - db.lo)) * USEC_RADIX + (da.us - db.us)
        dps == da.ps - db.ps
    IN  /\ dhi \in {-1, 0, 1}
        /\ (dhi * LO_RADIX + (da.lo - db.lo)) \in {-1, 0, 1}
        /\ \/ dus = 0
           \/ dus = 1 /\ dps < 0
           \/ dus = -1 /\ dps > 0

\* A float well inside the safe range.
WellInside(f) == f.kind = "fin" /\ f.hi < MOST_POSITIVE_FIXNUM

\* C20: a float x well inside the safe range, decoded to a time value and
\* converted back as (us * 10^6 + ps) / 10^12 + lo + hi * 65536, gives a y
\* with |y - x| < 10^-6.
C20_FloatRoundTrip ==
    (DecodedFloat /\ WellInside(call.low.f))
        => /\ ret.val = 1
           /\ WithinMicrosecond(ToFloat(ret.result.at.hi, ret.result.at.lo,
                                        ret.result.at.us, ret.result.at.ps),
                                call.low.f)

\* C20 witness: -65536.000000000001 decoded, every digit borrowing.
C20_Witness ==
    /\ DecodedFloat /\ WellInside(call.low.f)
    /\ call.low.f = Fin(TRUE, 1, 0, 0, 1)
    /\ ret.result.at = LispTime(-2, LO_RADIX - 1, USEC_RADIX - 1, USEC_RADIX - 1)

\* A decode of four integers has stored a time value.
StoredInts == DecodedInts /\ ~is_null(call.result) /\ ret.val = 1

\* The process i is associated with the buffer kill_buffer_processes was
\* called with: every process when the buffer is nil.
AssociatedWith(i) ==
    is_nil(call.buffer) \/ call.procs[i].buffer = call.buffer.name

\* C21: kill_buffer_processes(buffer) signals no error; every process whose
\* buffer is buffer (every process when buffer is nil) is acted on, a
\* network, serial or pipe connection being deleted and a real subprocess
\* with infd >= 0 being sent SIGHUP; a process of another buffer is left
\* as it was, is not deleted and is sent nothing.
C21_KillsBufferProcesses ==
    Done("kill_buffer_processes") =>
        /\ ret.err = NoError
        /\ \A i \in ProcIds :
              IF AssociatedWith(i)
              THEN /\ is_connection(call.procs[i])
                        => \E n \in DOMAIN ret.deleted : ret.deleted[n] = i
                   /\ (call.procs[i].type = "real" /\ call.procs[i].infd >= 0)
                        => \E n \in DOMAIN ret.kills :
                              /\ ret.kills[n].signo = "SIGHUP"
                              /\ ret.kills[n].pid \in {call.procs[i].pid, -call.procs[i].pid}
              ELSE /\ ret.procs[i] = call.procs[i]
                   /\ \A n \in DOMAIN ret.deleted : ret.deleted[n] # i

\* C22: process-status of a string that names no process returns nil and
\* signals no error.
C22_StatusNilForUnknownName ==
    ( /\ Done("process-status")
      /\ is_string(call.process)
      /\ is_nil(get_process_lisp(call.process, procs)) )
        => ret.err = NoError /\ ret.val = "nil"

\* C23: with usec and psec canonical, an integer low of any size decodes to
\* hi = high + floor(low / 65536) and lo = low mod 65536 in 0 .. 65535; the
\* carry into hi is taken before lo is masked, and from the low that has
\* absorbed the carry of usec: a negative usec that borrows from low moves
\* hi with it.
C23_LowCarry ==
    /\ ( /\ StoredInts
          /\ call.usec.n \in 0 .. USEC_RADIX - 1
          /\ call.psec.n \in 0 .. USEC_RADIX - 1 )
           => /\ ret.result.at.hi = call.high.n + call.low.n \div LO_RADIX
              /\ ret.result.at.lo = call.low.n % LO_RADIX
              /\ ret.result.at.us = call.usec.n /\ ret.result.at.ps = call.psec.n
    /\ ( /\ StoredInts
          /\ call.usec.n < 0 /\ call.usec.n % USEC_RADIX # 0
          /\ call.psec.n \in 0 .. USEC_RADIX - 1 )
           => /\ ret.result.at.hi
                     = call.high.n + (call.low.n + call.usec.n \div USEC_RADIX) \div LO_RADIX
              /\ ret.result.at.lo
                     = (call.low.n + call.usec.n \div USEC_RADIX) % LO_RADIX

\* C23 witness: the low -1 under canonical usec and psec borrows from hi.
C23_Witness ==
    /\ StoredInts
    /\ call.high.n = 0 /\ call.low.n = -1
    /\ call.usec.n = USEC_RADIX - 1 /\ call.psec.n = 1
    /\ ret.result.at = LispTime(-1, LO_RADIX - 1, USEC_RADIX - 1, 1)

\* C24: time-add and time-subtract read the clock once for each nil operand
\* and never for another, A's sample before B's; A is decoded and validated
\* before B is touched, so an invalid A signals before the clock is read
\* for B; each nil operand has the value of its own sample.
C24_ClockPerUse ==
    ArithDone =>
        /\ ret.clock = (IF is_nil(call.a) THEN <<"a">> ELSE <<>>)
                           \o (IF ret.ta # Unset /\ is_nil(call.b) THEN <<"b">> ELSE <<>>)
        /\ ret.ta = Unset => ret.tb = Unset /\ ret.err # NoError
        /\ is_nil(call.a) => ret.ta = TimeOfTimespec(call.now_a)
        /\ (ret.ta # Unset /\ is_nil(call.b)) => ret.tb = TimeOfTimespec(call.now_b)

\* C24 witness: (time-subtract nil nil) with two samples that differ gives
\* a difference that is not zero.
C24_Witness ==
    /\ Done("time-subtract") /\ is_nil(call.a) /\ is_nil(call.b)
    /\ call.now_a # call.now_b
    /\ ret.clock = <<"a", "b">>
    /\ ret.err = NoError /\ ret.t # LispTime(0, 0, 0, 0)

\* A primitive that went through process_send_signal is at its last block
\* or has returned.
SendingSignal == pc \in {"signal", "done"} /\ "sig" \in DOMAIN ret

\* C25: the id process_send_signal passes to kill is the negated group id
\* when process groups are in use (no_pgrp false), so that the whole group
\* gets the signal, and the positive id of the immediate subprocess only
\* when there are no process groups (no_pgrp true).
C25_SignalsProcessGroup ==
    SendingSignal =>
        \A n \in DOMAIN ret.kills :
            ret.kills[n].pid = IF ret.sig.no_pgrp THEN ret.sig.gid ELSE -ret.sig.gid

\* C26: process_send_signal never signals a process that has been reaped.
\* It calls kill only if the test of alive succeeded; the test and the kill
\* are both made with the child signals blocked, which are blocked before
\* and unblocked after on every path, so that no child is reaped between
\* the test and the kill; every kill reaches a process not yet reaped.
C26_NeverSignalsReaped ==
    /\ SendingSignal =>
          /\ \A n \in DOMAIN ret.kills : ~ret.kills[n].reaped
          /\ ret.kills # <<>> => ret.alive_seen /\ ret.tested_blocked
          /\ (pc = "signal" /\ send_signal_steps[ret.step] \in {"test", "kill"})
                => blocked
          /\ (pc = "signal" /\ send_signal_steps[ret.step] = "kill" /\ ret.alive_seen)
                => procs[ret.sig.id].alive
    /\ pc \in {"idle", "done"} => ~blocked

\* C26 witness: the child terminated while the signals were blocked; the
\* kill was made and reached it before it could be reaped.
C26_Witness ==
    /\ pc = "signal" /\ "sig" \in DOMAIN ret
    /\ send_signal_steps[ret.step] = "unblock"
    /\ blocked
    /\ Len(ret.kills) = 1 /\ ~ret.kills[1].reaped
    /\ procs[ret.sig.id].exited /\ procs[ret.sig.id].alive

\* The step is (stop-process P) for P the connection i.
StopsConnection(i) ==
    /\ pc = "idle" /\ call'.op = "stop-process"
    /\ get_process(call'.process, procs) = Found(i)
    /\ is_connection(procs[i])

\* The step is (continue-process P) for P the connection i.
ContinuesConnection(i) ==
    /\ pc = "idle" /\ call'.op = "continue-process"
    /\ call'.process = ProcessObj(i)
    /\ is_connection(procs[i])

\* The symbol process-status gives for the process i after the step.
StatusAfter(i) == process_status(ProcessObj(i), procs').val

\* What stop-process does to the connection i.
ConnectionStopped(i) ==
    /\ pc' = "done" /\ ret'.err = NoError /\ ret'.kills = <<>>
    /\ read_fds' = read_fds \ {procs[i].infd}
    /\ procs' = [procs EXCEPT ![i].command = "t"]
    /\ StatusAfter(i) = IF status_symbol(procs[i].status) = "exit" THEN "closed" ELSE "stop"
    /\ procs[i].command = "t" => procs'[i].command = procs[i].command

\* What continue-process does to the connection i.
ConnectionContinued(i) ==
    /\ pc' = "done" /\ ret'.err = NoError /\ ret'.kills = <<>>
    /\ procs' = [procs EXCEPT ![i].command = "nil"]
    /\ read_fds' = IF /\ procs[i].command = "t"
                      /\ procs[i].infd >= 0
                      /\ (procs[i].filter # "t" \/ procs[i].status = Sym("listen"))
                   THEN read_fds \cup {procs[i].infd}
                   ELSE read_fds
    /\ StatusAfter(i) # "stop"
    /\ procs[i].command = "nil" => procs'[i].command = procs[i].command

\* C27: for a network, serial or pipe process, stop-process sends no
\* signal, takes infd out of the read set and sets command to t, after
\* which process-status gives stop (closed when the raw status is exit);
\* continue-process sends no signal, sets command to nil, and puts infd back
\* into the read set only if the process was stopped, infd >= 0 and the
\* filter is not t or the status is listen, after which process-status does
\* not give stop; a second stop or continue in a row leaves command as it
\* is.
C27_StopContinueConnection ==
    [][\A i \in ProcIds :
          /\ StopsConnection(i) => ConnectionStopped(i)
          /\ ContinuesConnection(i) => ConnectionContinued(i)]_vars

\* C27 witness: a listening server whose filter is t has been continued:
\* it is read from and process-status gives listen.
C27_Witness ==
    /\ Done("continue-process") /\ ret.err = NoError /\ ret.kills = <<>>
    /\ is_connection(procs[ret.sig.id])
    /\ procs[ret.sig.id].filter = "t" /\ procs[ret.sig.id].status = Sym("listen")
    /\ procs[ret.sig.id].command = "nil"
    /\ procs[ret.sig.id].infd \in read_fds
    /\ process_status(call.process, procs).val = "listen"

\* C30: c_exports_for_module, run line by line over a module file, writes
\* one line `pub use <mod>::F<name>` and one entry of the module's
\* export_lisp_fns! list for every function that has a #[lisp_fn...]
\* attribute, the name being the c_name if given and the name of the fn if
\* not, also when the attribute is written over several lines; it is back
\* in the state Looking after each attribute, and writes nothing for an
\* attribute inside a comment block.
C30_ExportsEveryLispFn ==
    Done("c_exports_for_module") =>
        /\ ret.parse_state = "Looking"
        /\ SelectSeq(ret.out, LAMBDA u : u.prefix = "F")
               = [k \in 1 .. Len(FileExports(call.items, 1)) |->
                     PubUse(call.modname, "F", FileExports(call.items, 1)[k])]
        /\ FileExports(call.items, 1) # <<>>
               => ret.exports_file = <<FileExports(call.items, 1)>>

\* C28: on normalized time values time_add and time_subtract undo each
\* other in all four fields, whatever the size of hi:
\* time_subtract(time_add(a, b), b) = a and
\* time_add(time_subtract(a, b), b) = a; and time_add(a, b) = time_add(b, a).
C28_AddSubtractInverse ==
    Done("time_add, time_subtract") =>
        /\ ret.sum_less_tb = call.ta
        /\ ret.difference_plus_tb = call.ta
        /\ ret.sum = ret.sum_swapped

\* C28 witness: a sum that carries through every digit, taken back.
C28_Witness ==
    /\ Done("time_add, time_subtract")
    /\ call.ta = LispTime(0, LO_RADIX - 1, USEC_RADIX - 1, USEC_RADIX - 1)
    /\ call.tb = LispTime(0, 0, 0, 1)
    /\ ret.sum = LispTime(1, 0, 0, 0)
    /\ ret.sum_less_tb = call.ta

\* C29: for a normalized time value whose hi is a fixnum, lisp_to_timespec
\* returns either the invalid timespec or tv_sec = hi * 65536 + lo exactly,
\* with 0 <= tv_nsec < 10^9; a hi whose hi * 65536 does not fit time_t gives
\* the invalid timespec, never a wrapped tv_sec.  tv_sec = hi * 65536 + lo
\* is read as hi and lo being the quotient and the remainder of tv_sec by
\* 65536.
C29_TimespecNeverWraps ==
    ( /\ Done("lisp_to_timespec")
      /\ Normalized(call.t) /\ ~fixnum_overflow(call.t.hi) )
        => \/ ret = InvalidTimespec
           \/ /\ ret.tv_sec \div LO_RADIX = call.t.hi
              /\ ret.tv_sec % LO_RADIX = call.t.lo
              /\ 0 <= ret.tv_nsec /\ ret.tv_nsec < 1000 * USEC_RADIX

====
